---- MODULE Spec2Model ----
(***************************************************************************)
(* Model of the bulk-lighthouse analysis endpoint (POST /api/pagespeed):   *)
(* metric extraction from the upstream PageSpeed document, numeric         *)
(* normalisation of the display strings (parseMetricValue) and the         *)
(* best-effort insert into the 'lighthouse-score' table.                   *)
(*                                                                         *)
(* JavaScript strings are sequences of one-character strings.  JavaScript  *)
(* values are records tagged by their type in field t.  Numbers are exact  *)
(* decimals m / 10^e with a sign, or NaN.                                  *)
(***************************************************************************)
EXTENDS Integers, Sequences, FiniteSets, TLC

\* ------------------------------------------------------------------------
\* Bounds of the model
\* ------------------------------------------------------------------------

\* longest display string enumerated character by character
MaxLen == 4

\* number of requests the endpoint handles concurrently
MaxRequests == 2

\* ------------------------------------------------------------------------
\* JavaScript values
\* ------------------------------------------------------------------------

JsUndefined == [t |-> "undefined"]

JsNull == [t |-> "null"]

JsStr(s) == [t |-> "string", s |-> s]

JsNum(n) == [t |-> "number", n |-> n]

\* exact decimal  (-1)^neg * m / 10^e
Dec(neg, m, e) == [nan |-> FALSE, neg |-> neg, m |-> m, e |-> e]

NaN == [nan |-> TRUE, neg |-> FALSE, m |-> 0, e |-> 0]

Zero == Dec(FALSE, 0, 0)

RECURSIVE Normalize(_, _, _)
\* the canonical form of a decimal: no trailing zero in the fraction
Normalize(neg, m, e) ==
  IF e > 0 /\ m % 10 = 0 THEN Normalize(neg, m \div 10, e - 1)
  ELSE Dec(neg /\ m # 0, m, e)

\* ToBoolean: the falsy values are undefined, null, "", 0 and NaN
Truthy(v) ==
  CASE v.t = "undefined" -> FALSE
    [] v.t = "null" -> FALSE
    [] v.t = "string" -> v.s # <<>>
    [] v.t = "number" -> ~v.n.nan /\ v.n.m # 0
    [] OTHER -> TRUE

\* a || b
JsOr(a, b) == IF Truthy(a) THEN a ELSE b

\* the sentinel 'N/A'
NA == <<"N", "/", "A">>

\* ------------------------------------------------------------------------
\* parseFloat and parseMetricValue
\* ------------------------------------------------------------------------

Digits == {"0", "1", "2", "3", "4", "5", "6", "7", "8", "9"}

DigitVal(c) ==
  CASE c = "0" -> 0 [] c = "1" -> 1 [] c = "2" -> 2 [] c = "3" -> 3
    [] c = "4" -> 4 [] c = "5" -> 5 [] c = "6" -> 6 [] c = "7" -> 7
    [] c = "8" -> 8 [] c = "9" -> 9

RECURSIVE StripNonNumericMinus(_)
\* the replace with the class [^0-9.-], which keeps the minus sign
StripNonNumericMinus(s) ==
  IF s = <<>> THEN <<>>
  ELSE IF Head(s) \in Digits \cup {".", "-"}
       THEN <<Head(s)>> \o StripNonNumericMinus(Tail(s))
       ELSE StripNonNumericMinus(Tail(s))

RECURSIVE StripNonDigit(_)
\* the replace with the class [^0-9], which deletes the decimal point too
StripNonDigit(s) ==
  IF s = <<>> THEN <<>>
  ELSE IF Head(s) \in Digits
       THEN <<Head(s)>> \o StripNonDigit(Tail(s))
       ELSE StripNonDigit(Tail(s))

RECURSIVE StripNonNumeric(_)
\* value.replace(/[^0-9.]/g, ''): every match of the class is deleted
StripNonNumeric(s) ==
  IF s = <<>> THEN <<>>
  ELSE IF Head(s) \in Digits \cup {"."}
       THEN <<Head(s)>> \o StripNonNumeric(Tail(s))
       ELSE StripNonNumeric(Tail(s))

RECURSIVE TakeDigits(_)
\* the longest run of decimal digits at the start of s
TakeDigits(s) ==
  IF s = <<>> \/ Head(s) \notin Digits THEN <<>>
  ELSE <<Head(s)>> \o TakeDigits(Tail(s))

RECURSIVE DigitsToNat(_, _)
\* the number a digit string denotes, accumulated left to right
DigitsToNat(s, acc) ==
  IF s = <<>> THEN acc ELSE DigitsToNat(Tail(s), 10 * acc + DigitVal(Head(s)))

RECURSIVE SkipWhite(_)
\* parseFloat trims leading white space
SkipWhite(s) ==
  IF s # <<>> /\ Head(s) = " " THEN SkipWhite(Tail(s)) ELSE s

Drop(s, n) == SubSeq(s, n + 1, Len(s))

\* parseFloat(s): the longest prefix of the trimmed string that is a
\* StrDecimalLiteral (sign, digits, optional point and digits); NaN when
\* there is none.  Exponents and "Infinity" need letters, which the callers
\* of this model have removed from s.
ParseFloat(s) ==
  LET t == SkipWhite(s)
      signed == t # <<>> /\ Head(t) \in {"-", "+"}
      neg == t # <<>> /\ Head(t) = "-"
      u == IF signed THEN Tail(t) ELSE t
      ip == TakeDigits(u)
      r == Drop(u, Len(ip))
      fp == IF r # <<>> /\ Head(r) = "." THEN TakeDigits(Tail(r)) ELSE <<>>
  IN IF ip = <<>> /\ fp = <<>> THEN NaN
     ELSE Normalize(neg, DigitsToNat(ip \o fp, 0), Len(fp))

\* the outcome of a call: a returned value, or a thrown TypeError
Returned(v) == [threw |-> FALSE, val |-> v]

Threw == [threw |-> TRUE, val |-> Zero]

\* parseMetricValue with the isNaN test dropped
ParseMetricValueNoNaNTest(value) ==
  IF ~Truthy(value) \/ value = JsStr(NA) THEN Returned(Zero)
  ELSE IF value.t # "string" THEN Threw
  ELSE Returned(ParseFloat(StripNonNumeric(value.s)))

\* parseMetricValue(value), value being any JavaScript value
ParseMetricValue(value) ==
  IF ~Truthy(value) \/ value = JsStr(NA) THEN Returned(Zero)
  ELSE IF value.t # "string" THEN Threw
  ELSE LET numericValue == ParseFloat(StripNonNumeric(value.s))
       IN Returned(IF numericValue.nan THEN Zero ELSE numericValue)

\* ------------------------------------------------------------------------
\* Metric extraction
\* ------------------------------------------------------------------------

JsObj(fields) == [t |-> "object", f |-> fields]

\* a.k : undefined when a has no property k; a TypeError on undefined/null
\* is the caller's case (see Extract)
Prop(a, k) ==
  IF a.t = "object" /\ k \in DOMAIN a.f THEN a.f[k] ELSE JsUndefined

\* a?.k : undefined when a is undefined or null
OptProp(a, k) ==
  IF a.t \in {"undefined", "null"} THEN JsUndefined ELSE Prop(a, k)

\* data.loadingExperience?.metrics?.[metric]?.category
CruxPath(data, metric) ==
  OptProp(OptProp(OptProp(Prop(data, "loadingExperience"), "metrics"),
                  metric), "category")

\* data.lighthouseResult?.audits?.[audit]?.displayValue
AuditPath(data, audit) ==
  OptProp(OptProp(OptProp(Prop(data, "lighthouseResult"), "audits"),
                  audit), "displayValue")

\* the CrUX metric each cruxMetrics label reads
CruxKey ==
  [l \in {"First Contentful Paint", "Interaction to Next Paint"} |->
     IF l = "First Contentful Paint" THEN "FIRST_CONTENTFUL_PAINT_MS"
     ELSE "INTERACTION_TO_NEXT_PAINT"]

\* the Lighthouse audit each lighthouseMetrics label reads
AuditKey ==
  [l \in {"First Contentful Paint", "Speed Index",
           "Largest Contentful Paint", "Total Blocking Time",
           "Time To Interactive"} |->
     CASE l = "First Contentful Paint" -> "first-contentful-paint"
       [] l = "Speed Index" -> "speed-index"
       [] l = "Largest Contentful Paint" -> "largest-contentful-paint"
       [] l = "Total Blocking Time" -> "total-blocking-time"
       [] l = "Time To Interactive" -> "interactive"]

CruxLabels == DOMAIN CruxKey

AuditLabels == DOMAIN AuditKey

\* the extraction with the fallback taken on undefined only (?? for ||)
ExtractNullish(data) ==
  IF data.t \in {"undefined", "null"} THEN Threw
  ELSE Returned(
    [id |-> Prop(data, "id"),
     cruxMetrics |->
       [l \in CruxLabels |->
          IF CruxPath(data, CruxKey[l]).t \in {"undefined", "null"}
          THEN JsStr(NA) ELSE CruxPath(data, CruxKey[l])],
     lighthouseMetrics |->
       [l \in AuditLabels |->
          IF AuditPath(data, AuditKey[l]).t \in {"undefined", "null"}
          THEN JsStr(NA) ELSE AuditPath(data, AuditKey[l])],
     databaseId |-> JsUndefined])

\* the result object built from the upstream document; reading data.id of
\* a null document throws
Extract(data) ==
  IF data.t \in {"undefined", "null"} THEN Threw
  ELSE Returned(
    [id |-> Prop(data, "id"),
     cruxMetrics |->
       [l \in CruxLabels |-> JsOr(CruxPath(data, CruxKey[l]), JsStr(NA))],
     lighthouseMetrics |->
       [l \in AuditLabels |-> JsOr(AuditPath(data, AuditKey[l]), JsStr(NA))],
     databaseId |-> JsUndefined])

\* ------------------------------------------------------------------------
\* Strings of the endpoint
\* ------------------------------------------------------------------------

Lower == <<"a", "b", "c", "d", "e", "f", "g", "h", "i", "j", "k", "l", "m",
           "n", "o", "p", "q", "r", "s", "t", "u", "v", "w", "x", "y", "z">>

Upper == <<"A", "B", "C", "D", "E", "F", "G", "H", "I", "J", "K", "L", "M",
           "N", "O", "P", "Q", "R", "S", "T", "U", "V", "W", "X", "Y", "Z">>

UpperChar(c) ==
  IF \E i \in DOMAIN Lower : Lower[i] = c
  THEN Upper[CHOOSE i \in DOMAIN Lower : Lower[i] = c]
  ELSE c

\* String.prototype.toUpperCase
ToUpperCase(s) == [i \in DOMAIN s |-> UpperChar(s[i])]

desktop == <<"d", "e", "s", "k", "t", "o", "p">>

mobile == <<"m", "o", "b", "i", "l", "e">>

tablet == <<"t", "a", "b", "l", "e", "t">>

\* the value of the device filter that keeps every record
all == <<"a", "l", "l">>

UrlA == <<"h", "t", "t", "p", "s", ":", "/", "/", "a", ".", "c", "o", "m",
          "/", "x">>

Sec23 == <<"2", ".", "3", " ", "s">>

Ms150 == <<"1", "5", "0", " ", "m", "s">>

\* ------------------------------------------------------------------------
\* Inputs of the endpoint: request bodies, upstream replies, store outcomes
\* ------------------------------------------------------------------------

Requests == 1 .. MaxRequests

\* what request.json() yields: a rejection (malformed JSON), null, or an
\* object with the two properties the handler reads
Bodies ==
  {[kind |-> "malformed", url |-> JsUndefined, strategy |-> JsUndefined],
   [kind |-> "null", url |-> JsUndefined, strategy |-> JsUndefined]}
  \cup
  [kind : {"object"},
   url : {JsUndefined, JsStr(<<>>), JsStr(UrlA)},
   strategy : {JsUndefined, JsNull, JsStr(mobile), JsStr(tablet)}]

Audit(v) == JsObj([displayValue |-> v])

Crux(v) == JsObj([category |-> v])

\* an upstream document; a part given as JsUndefined is missing
Doc(le, lr) ==
  JsObj([id |-> JsStr(UrlA), loadingExperience |-> le,
         lighthouseResult |-> lr])

Metrics(fcp, inp) ==
  JsObj([metrics |->
    JsObj([k \in {"FIRST_CONTENTFUL_PAINT_MS", "INTERACTION_TO_NEXT_PAINT"} |->
             IF k = "FIRST_CONTENTFUL_PAINT_MS" THEN fcp ELSE inp])])

Audits(fcp, si, lcp, tbt, tti) ==
  JsObj([audits |->
    JsObj([k \in {"first-contentful-paint", "speed-index",
                  "largest-contentful-paint", "total-blocking-time",
                  "interactive"} |->
             CASE k = "first-contentful-paint" -> fcp
               [] k = "speed-index" -> si
               [] k = "largest-contentful-paint" -> lcp
               [] k = "total-blocking-time" -> tbt
               [] k = "interactive" -> tti])])

\* every tracked path present
DocFull ==
  Doc(Metrics(Crux(JsStr(<<"F", "A", "S", "T">>)),
              Crux(JsStr(<<"S", "L", "O", "W">>))),
      Audits(Audit(JsStr(Sec23)), Audit(JsStr(Sec23)), Audit(JsStr(Sec23)),
             Audit(JsStr(Ms150)), Audit(JsStr(Sec23))))

\* no tracked path present: the document {}
DocEmpty == JsObj(<<>>)

\* paths missing at different depths, an empty display value, display
\* strings without a number, and the sentinel itself as a display value
DocOdd ==
  Doc(JsObj([metrics |-> JsNull]),
      Audits(Audit(JsStr(<<>>)), Audit(JsStr(<<"a", "b", "c">>)),
             JsUndefined, Audit(JsStr(NA)), Audit(JsUndefined)))

\* a display value that is a JSON number, not a string
DocNum ==
  Doc(JsUndefined,
      Audits(Audit(JsNum(Dec(FALSE, 23, 1))), Audit(JsStr(Sec23)),
             Audit(JsStr(Sec23)), Audit(JsStr(Ms150)), Audit(JsStr(Sec23))))

UpstreamDocs == {DocFull, DocEmpty, DocOdd, DocNum}

\* what the fetch of the upstream API yields: a rejection, or a response
\* with a status and a body that parses as JSON (to data) or does not
FetchThrew == [threw |-> TRUE, status |-> 0, parses |-> FALSE, data |-> JsUndefined]

HttpReply(status, parses, data) ==
  [threw |-> FALSE, status |-> status, parses |-> parses, data |-> data]

UpstreamReplies ==
  {FetchThrew, HttpReply(500, TRUE, JsObj(<<>>)), HttpReply(200, FALSE, JsUndefined),
   HttpReply(200, TRUE, JsNull)}
  \cup {HttpReply(200, TRUE, d) : d \in UpstreamDocs}

\* Response.ok tested without the upper end of the 2xx range
OkNoUpperEnd(reply) == reply.status >= 200

\* Response.ok
Ok(reply) == reply.status >= 200 /\ reply.status <= 299

\* what the awaited insert yields: the inserted row, an error object, or a
\* rejection
InsertOutcomes == {"row", "error", "throw"}

\* ------------------------------------------------------------------------
\* State
\* ------------------------------------------------------------------------

VARIABLES
  pc,        \* per request: "idle", "fetching", "inserting" or "done"
  body,      \* per request: what request.json() yielded
  query,     \* per request: the search parameters sent to the upstream API
  upstream,  \* per request: what the upstream fetch yielded
  result,    \* per request: the handler's result object
  dbRecord,  \* per request: the handler's dbRecord
  response,  \* per request: the response the handler returned
  inserts,   \* per request: number of insert calls the handler has issued
  inserted,  \* per request: what the insert call yielded
  store,     \* the rows of table 'lighthouse-score', in insertion order
  nextId,    \* the identity the store gives the next row
  fnIn,      \* argument of the function under check (function specifications)
  fnOut,     \* its outcome
  selectedWebsite,  \* ResultsHistory prop: the selected hostname, or null
  strategyFilter,   \* ResultsHistory state: all, desktop or mobile
  sortField,        \* ResultsHistory state
  sortDirection,    \* ResultsHistory state: "asc" or "desc"
  refreshTrigger,   \* ResultsHistory prop: Layout's counter
  results,          \* ResultsHistory state: the record collection of the view
  loading,          \* ResultsHistory state
  error,            \* ResultsHistory state: a message, or null
  inflight,         \* the fetchResults calls awaiting their response
  started,          \* number of fetchResults calls made so far
  arrivals,         \* what each settled fetchResults call did, in arrival order
  form,             \* PageSpeedInsights state and its request in flight
  effectDeps        \* the refreshTrigger the effect of ResultsHistory last ran with

formVars == <<form, effectDeps>>

viewVars == <<selectedWebsite, strategyFilter, sortField, sortDirection,
              refreshTrigger, results, loading, error, inflight, started,
              arrivals, formVars>>

vars == <<pc, body, query, upstream, result, dbRecord, response, inserts,
          inserted, store, nextId, fnIn, fnOut, viewVars>>

reqVars == <<pc, body, query, upstream, result, dbRecord, response, inserts,
             inserted, store, nextId>>

None == [t |-> "none"]

NoResponse == [status |-> 0, body |-> <<>>]

NotInserted == [outcome |-> "none", id |-> 0]

\* NextResponse.json({error: msg}, {status})
ErrorResponse(status, msg) == [status |-> status, body |-> [error |-> msg]]

\* JSON.stringify leaves out the properties whose value is undefined
JsonOf(obj) == [k \in {k \in DOMAIN obj : obj[k] # JsUndefined} |-> obj[k]]

\* NextResponse.json(result): status 200
JsonResponse(obj) == [status |-> 200, body |-> JsonOf(obj)]

\* the catch block of POST
Fail500 == ErrorResponse(500, "Failed to fetch PageSpeed data")

\* process.env.NEXT_PUBLIC_PAGESPEED_API_KEY
ApiKey == JsStr(<<"k">>)

\* const { url: targetUrl } = body
TargetUrl(b) == b.url

\* the strategy of the request ignored, as in the handler without strategy
StrategyIgnored(b) == JsStr(desktop)

\* const { strategy = 'desktop' } = body: the default replaces undefined only
Strategy(b) == IF b.strategy = JsUndefined THEN JsStr(desktop) ELSE b.strategy

\* the search parameters of the upstream URL
UpstreamQuery(b) ==
  [url |-> TargetUrl(b), strategy |-> JsStr(ToUpperCase(Strategy(b).s))]
  @@ (IF Truthy(ApiKey) THEN [key |-> ApiKey] ELSE <<>>)

\* POST up to the await of the fetch, without the test of targetUrl
PostStartNoUrlTest(b) ==
  IF b.kind = "malformed" THEN [next |-> "done", response |-> Fail500, query |-> None]
  ELSE IF b.kind = "null" THEN [next |-> "done", response |-> Fail500, query |-> None]
  ELSE IF Strategy(b).t # "string"
  THEN [next |-> "done", response |-> Fail500, query |-> None]
  ELSE [next |-> "fetching", response |-> NoResponse, query |-> UpstreamQuery(b)]

\* POST up to the await of the upstream fetch: the response it returns, or
\* the query it sends
PostStart(b) ==
  IF b.kind = "malformed" THEN [next |-> "done", response |-> Fail500, query |-> None]
  ELSE IF b.kind = "null" THEN [next |-> "done", response |-> Fail500, query |-> None]
  ELSE IF ~Truthy(TargetUrl(b))
  THEN [next |-> "done", response |-> ErrorResponse(400, "URL is required"),
        query |-> None]
  ELSE IF Strategy(b).t # "string"
  THEN [next |-> "done", response |-> Fail500, query |-> None]
  ELSE [next |-> "fetching", response |-> NoResponse, query |-> UpstreamQuery(b)]

\* const dbRecord = {...}: five parsed metrics, the url and the strategy; a
\* parseMetricValue that throws leaves no record
BuildRecord(res, b) ==
  LET parsed == [l \in AuditLabels |-> ParseMetricValue(res.lighthouseMetrics[l])]
  IN IF \E l \in AuditLabels : parsed[l].threw THEN Threw
     ELSE Returned(
       [first_content_paint |-> parsed["First Contentful Paint"].val,
        speed_index |-> parsed["Speed Index"].val,
        largest_content_paint |-> parsed["Largest Contentful Paint"].val,
        total_blocking_time |-> parsed["Total Blocking Time"].val,
        time_to_interactive |-> parsed["Time To Interactive"].val,
        url |-> TargetUrl(b),
        device_strategy |-> Strategy(b)])

\* POST from the resolution of the fetch to the await of the insert
PostAfterFetch(b, reply) ==
  LET fail == [next |-> "done", response |-> Fail500, result |-> None,
               dbRecord |-> None]
  IN IF reply.threw \/ ~Ok(reply) \/ ~reply.parses THEN fail
     ELSE LET ex == Extract(reply.data)
          IN IF ex.threw THEN fail
             ELSE LET rec == BuildRecord(ex.val, b)
                  IN IF rec.threw THEN fail
                     ELSE [next |-> "inserting", response |-> NoResponse,
                           result |-> ex.val, dbRecord |-> rec.val]

\* the row the store makes of a record: it assigns id and created_at
StoreRow(rec, id) == rec @@ [id |-> id, created_at |-> id]

\* what .insert([dbRecord]).select() resolves to
InsertData(outcome, rec, id) ==
  IF outcome = "row" THEN <<StoreRow(rec, id)>> ELSE <<>>

\* POST after the insert, with databaseId set to null when no row came back
PostAfterInsertNullId(res, outcome, insertData) ==
  IF outcome = "row" /\ insertData # <<>>
  THEN [res EXCEPT !.databaseId = JsNum(Dec(FALSE, insertData[1].id, 0))]
  ELSE [res EXCEPT !.databaseId = JsNull]

\* POST after the insert: databaseId is set from the first returned row
PostAfterInsert(res, outcome, insertData) ==
  IF outcome = "row" /\ insertData # <<>>
  THEN [res EXCEPT !.databaseId = JsNum(Dec(FALSE, insertData[1].id, 0))]
  ELSE res

\* a table write that keeps only the rows it is given
ReplaceRows(table, rows) == rows

\* supabase.from('lighthouse-score').insert(rows): the rows are added after
\* the rows the table holds
insert(table, rows) == table \o rows

\* ------------------------------------------------------------------------
\* Actions of the endpoint
\* ------------------------------------------------------------------------

\* the analysis form as it mounts: its useState defaults, no request sent;
\* lastOk remembers the last response that was ok and how many fetchResults
\* calls had been made when it arrived
FormIdle ==
  [data |-> JsNull, error |-> JsNull, successMessage |-> JsNull,
   loading |-> FALSE, pending |-> FALSE, submits |-> 0,
   lastOk |-> [kind |-> "none", started |-> 0]]

\* the ResultsHistory component before it is mounted: its useState defaults
ViewIdle ==
  /\ form = FormIdle
  /\ effectDeps = 0
  /\ selectedWebsite = JsNull
  /\ strategyFilter = all
  /\ sortField = "created_at"
  /\ sortDirection = "desc"
  /\ refreshTrigger = 0
  /\ results = <<>>
  /\ loading = FALSE
  /\ error = JsNull
  /\ inflight = {}
  /\ started = 0
  /\ arrivals = <<>>

\* the endpoint with no request received and an empty table
EndpointIdle ==
  /\ pc = [r \in Requests |-> "idle"]
  /\ body = [r \in Requests |-> None]
  /\ query = [r \in Requests |-> None]
  /\ upstream = [r \in Requests |-> None]
  /\ result = [r \in Requests |-> None]
  /\ dbRecord = [r \in Requests |-> None]
  /\ response = [r \in Requests |-> NoResponse]
  /\ inserts = [r \in Requests |-> 0]
  /\ inserted = [r \in Requests |-> NotInserted]
  /\ store = <<>>
  /\ nextId = 1

Init ==
  /\ ViewIdle
  /\ pc = [r \in Requests |-> "idle"]
  /\ body = [r \in Requests |-> None]
  /\ query = [r \in Requests |-> None]
  /\ upstream = [r \in Requests |-> None]
  /\ result = [r \in Requests |-> None]
  /\ dbRecord = [r \in Requests |-> None]
  /\ response = [r \in Requests |-> NoResponse]
  /\ inserts = [r \in Requests |-> 0]
  /\ inserted = [r \in Requests |-> NotInserted]
  /\ store = <<>>
  /\ nextId = 1
  /\ fnIn = None
  /\ fnOut = None

\* a request arrives and the handler runs to its first await of the network
Receive(r) ==
  /\ pc[r] = "idle"
  /\ \E b \in Bodies :
       LET out == PostStart(b)
       IN /\ body' = [body EXCEPT ![r] = b]
          /\ pc' = [pc EXCEPT ![r] = out.next]
          /\ response' = [response EXCEPT ![r] = out.response]
          /\ query' = [query EXCEPT ![r] = out.query]
  /\ UNCHANGED <<upstream, result, dbRecord, inserts, inserted, store, nextId,
                 fnIn, fnOut, viewVars>>

\* the upstream fetch settles and the handler runs to the insert call
UpstreamReply(r) ==
  /\ pc[r] = "fetching"
  /\ \E reply \in UpstreamReplies :
       LET out == PostAfterFetch(body[r], reply)
       IN /\ upstream' = [upstream EXCEPT ![r] = reply]
          /\ pc' = [pc EXCEPT ![r] = out.next]
          /\ response' = [response EXCEPT ![r] = out.response]
          /\ result' = [result EXCEPT ![r] = out.result]
          /\ dbRecord' = [dbRecord EXCEPT ![r] = out.dbRecord]
          /\ inserts' = [inserts EXCEPT ![r] =
                           IF out.next = "inserting" THEN @ + 1 ELSE @]
  /\ UNCHANGED <<body, query, inserted, store, nextId, fnIn, fnOut, viewVars>>

\* the insert settles and the handler returns its response
InsertReply(r) ==
  /\ pc[r] = "inserting"
  /\ \E outcome \in InsertOutcomes :
       LET insertData == InsertData(outcome, dbRecord[r], nextId)
           res == PostAfterInsert(result[r], outcome, insertData)
       IN /\ store' = insert(store, insertData)
          /\ nextId' = IF outcome = "row" THEN nextId + 1 ELSE nextId
          /\ inserted' = [inserted EXCEPT ![r] =
               [outcome |-> outcome,
                id |-> IF outcome = "row" THEN nextId ELSE 0]]
          /\ result' = [result EXCEPT ![r] = res]
          /\ response' = [response EXCEPT ![r] = JsonResponse(res)]
          /\ pc' = [pc EXCEPT ![r] = "done"]
  /\ UNCHANGED <<body, query, upstream, dbRecord, inserts, fnIn, fnOut,
                 viewVars>>

Next == \E r \in Requests : Receive(r) \/ UpstreamReply(r) \/ InsertReply(r)

Spec == Init /\ [][Next]_vars

\* ------------------------------------------------------------------------
\* parseMetricValue over every display string (specification SpecParse)
\* ------------------------------------------------------------------------

\* characters of the enumerated display strings: digits, the decimal point,
\* a unit letter, white space, a minus sign and the characters of 'N/A'
Alphabet == {"0", "2", "3", ".", " ", "s", "-", "N", "/", "A"}

Strings ==
  UNION {[1 .. n -> Alphabet] : n \in 0 .. MaxLen} \cup {Sec23, Ms150}

\* an upstream document whose five display values are all s
DocOf(s) ==
  Doc(JsUndefined,
      Audits(Audit(JsStr(s)), Audit(JsStr(s)), Audit(JsStr(s)),
             Audit(JsStr(s)), Audit(JsStr(s))))

\* the request body {url: UrlA}
BodyA == [kind |-> "object", url |-> JsStr(UrlA), strategy |-> JsUndefined]

InitParse ==
  /\ ViewIdle
  /\ pc = [r \in Requests |-> "idle"]
  /\ body = [r \in Requests |-> None]
  /\ query = [r \in Requests |-> None]
  /\ upstream = [r \in Requests |-> None]
  /\ result = [r \in Requests |-> None]
  /\ dbRecord = [r \in Requests |-> None]
  /\ response = [r \in Requests |-> NoResponse]
  /\ inserts = [r \in Requests |-> 0]
  /\ inserted = [r \in Requests |-> NotInserted]
  /\ store = <<>>
  /\ nextId = 1
  /\ fnIn \in {JsStr(s) : s \in Strings}
  /\ fnOut = None

\* parseMetricValue(fnIn), and the dbRecord built from a document whose
\* display values are fnIn
ParseStep ==
  /\ fnOut = None
  /\ fnOut' = [value |-> ParseMetricValue(fnIn),
               record |-> BuildRecord(Extract(DocOf(fnIn.s)).val, BodyA)]
  /\ UNCHANGED <<reqVars, fnIn, viewVars>>

NextParse == ParseStep

SpecParse == InitParse /\ [][NextParse]_vars

\* ------------------------------------------------------------------------
\* What the parsing rule of the specification asks of a display string
\* ------------------------------------------------------------------------

IsNumericChar(c) == c \in Digits \cup {"."}

IsDigit(c) == c \in Digits

\* the string with every character deleted that is no digit and no point
Stripped(s) == SelectSeq(s, IsNumericChar)

Prefixes(t) == {SubSeq(t, 1, k) : k \in 0 .. Len(t)}

\* an unsigned decimal literal: digits with at most one point among them
IsDecimalLiteral(p) ==
  /\ \A i \in DOMAIN p : IsNumericChar(p[i])
  /\ Cardinality({i \in DOMAIN p : p[i] = "."}) <= 1
  /\ \E i \in DOMAIN p : IsDigit(p[i])

\* the string parses as a floating-point number: a literal starts it
Parses(t) == \E p \in Prefixes(t) : IsDecimalLiteral(p)

LongestLiteral(t) ==
  CHOOSE p \in Prefixes(t) :
    /\ IsDecimalLiteral(p)
    /\ \A q \in Prefixes(t) : IsDecimalLiteral(q) => Len(q) <= Len(p)

RECURSIVE Pow10(_)
Pow10(n) == IF n = 0 THEN 1 ELSE 10 * Pow10(n - 1)

RECURSIVE PlaceSum(_, _)
\* sum of digit * 10^place over the first k digits of ds
PlaceSum(ds, k) ==
  IF k = 0 THEN 0
  ELSE DigitVal(ds[k]) * Pow10(Len(ds) - k) + PlaceSum(ds, k - 1)

\* number of digits of the literal p behind its point
FracLen(p) ==
  IF \E i \in DOMAIN p : p[i] = "."
  THEN Len(p) - (CHOOSE i \in DOMAIN p : p[i] = ".")
  ELSE 0

\* val is the non-negative number the literal p denotes
Denotes(val, p) ==
  /\ ~val.nan
  /\ ~val.neg
  /\ val.m * Pow10(FracLen(p))
       = PlaceSum(SelectSeq(p, IsDigit), Len(SelectSeq(p, IsDigit))) * Pow10(val.e)

\* a JavaScript number that is no NaN and not below zero
NonNegative(val) == ~val.nan /\ ~val.neg /\ val.m \in Nat /\ val.e \in Nat

NumericFields ==
  {"first_content_paint", "speed_index", "largest_content_paint",
   "total_blocking_time", "time_to_interactive"}

\* C7: for every display string s, parseMetricValue(s) returns a number that
\* is non-negative and never NaN, 0 for 'N/A' and 0 for every string that
\* does not parse; the five numeric fields of the record built from display
\* values s are non-negative numbers.
C7_ParseNonNegative ==
  fnOut # None =>
    /\ ~fnOut.value.threw
    /\ NonNegative(fnOut.value.val)
    /\ (fnIn.s = NA => fnOut.value.val = Zero)
    /\ (~Parses(Stripped(fnIn.s)) => fnOut.value.val = Zero)
    /\ ~fnOut.record.threw
    /\ \A f \in NumericFields : NonNegative(fnOut.record.val[f])

\* C7 witness: a display string without any number has been parsed to 0
C7_Witness ==
  /\ fnIn = JsStr(<<"-", ".", "s">>)
  /\ fnOut # None
  /\ fnOut.value.val = Zero
  /\ fnOut.record.val["total_blocking_time"] = Zero

\* C8: for every display string other than 'N/A', parseMetricValue returns
\* the number denoted by the longest decimal literal that starts the string
\* stripped of every character that is no digit and no point ("2.3 s" gives
\* 2.3), and 0 when the stripped string starts with no literal.
C8_ParseStripped ==
  (fnOut # None /\ fnIn.s # NA) =>
    /\ ~fnOut.value.threw
    /\ IF Parses(Stripped(fnIn.s))
       THEN Denotes(fnOut.value.val, LongestLiteral(Stripped(fnIn.s)))
       ELSE fnOut.value.val = Zero
    /\ (fnIn.s = Sec23 => fnOut.value.val = Dec(FALSE, 23, 1))

\* C8 witness: "2.3 s" has been parsed to 2.3
C8_Witness ==
  /\ fnIn = JsStr(Sec23)
  /\ fnOut # None
  /\ fnOut.value.val = Dec(FALSE, 23, 1)

\* ------------------------------------------------------------------------
\* Extraction over upstream documents (specification SpecExtract)
\* ------------------------------------------------------------------------

\* what a document may hold at a CrUX category: nothing, "" or a label
CategoryValues == {JsUndefined, JsStr(<<>>), JsStr(<<"F", "A", "S", "T">>)}

\* what a document may hold at a display value: nothing, "", a display
\* string or a JSON number
DisplayValues ==
  {JsUndefined, JsStr(<<>>), JsStr(Sec23), JsNum(Dec(FALSE, 23, 1))}

CruxLeaves == {JsUndefined} \cup {Crux(v) : v \in CategoryValues}

AuditLeaves == {JsUndefined} \cup {Audit(v) : v \in DisplayValues}

LoadingExperiences ==
  {JsUndefined, JsNull, JsObj([metrics |-> JsNull])}
  \cup {Metrics(a, b) : a, b \in CruxLeaves}

LighthouseResults ==
  {JsUndefined, JsObj(<<>>)}
  \cup {Audits(a, b, c, d, e) : a, b, c, d, e \in AuditLeaves}

\* JSON objects with every subset of the seven tracked paths missing, at
\* every depth
Documents ==
  {Doc(le, lr) : le \in LoadingExperiences, lr \in LighthouseResults}
  \cup UpstreamDocs

InitExtract ==
  /\ ViewIdle
  /\ pc = [r \in Requests |-> "idle"]
  /\ body = [r \in Requests |-> None]
  /\ query = [r \in Requests |-> None]
  /\ upstream = [r \in Requests |-> None]
  /\ result = [r \in Requests |-> None]
  /\ dbRecord = [r \in Requests |-> None]
  /\ response = [r \in Requests |-> NoResponse]
  /\ inserts = [r \in Requests |-> 0]
  /\ inserted = [r \in Requests |-> NotInserted]
  /\ store = <<>>
  /\ nextId = 1
  /\ fnIn \in Documents
  /\ fnOut = None

\* the result object is built from the document fnIn
ExtractStep ==
  /\ fnOut = None
  /\ fnOut' = Extract(fnIn)
  /\ UNCHANGED <<reqVars, fnIn, viewVars>>

NextExtract == ExtractStep

SpecExtract == InitExtract /\ [][NextExtract]_vars

Missing == [t |-> "missing"]

RECURSIVE Walk(_, _)
\* the value a document holds at a path of property names, Missing when a
\* segment of the path is absent
Walk(v, path) ==
  IF path = <<>> THEN v
  ELSE IF v.t = "object" /\ Head(path) \in DOMAIN v.f
          /\ v.f[Head(path)] # JsUndefined
       THEN Walk(v.f[Head(path)], Tail(path))
       ELSE Missing

\* the seven tracked paths, by result group and label
TrackedPaths ==
  {[group |-> "cruxMetrics", label |-> "First Contentful Paint",
    path |-> <<"loadingExperience", "metrics", "FIRST_CONTENTFUL_PAINT_MS",
               "category">>],
   [group |-> "cruxMetrics", label |-> "Interaction to Next Paint",
    path |-> <<"loadingExperience", "metrics", "INTERACTION_TO_NEXT_PAINT",
               "category">>],
   [group |-> "lighthouseMetrics", label |-> "First Contentful Paint",
    path |-> <<"lighthouseResult", "audits", "first-contentful-paint",
               "displayValue">>],
   [group |-> "lighthouseMetrics", label |-> "Speed Index",
    path |-> <<"lighthouseResult", "audits", "speed-index", "displayValue">>],
   [group |-> "lighthouseMetrics", label |-> "Largest Contentful Paint",
    path |-> <<"lighthouseResult", "audits", "largest-contentful-paint",
               "displayValue">>],
   [group |-> "lighthouseMetrics", label |-> "Total Blocking Time",
    path |-> <<"lighthouseResult", "audits", "total-blocking-time",
               "displayValue">>],
   [group |-> "lighthouseMetrics", label |-> "Time To Interactive",
    path |-> <<"lighthouseResult", "audits", "interactive", "displayValue">>]}

\* the extracted value of a tracked path
Extracted(res, p) == res[p.group][p.label]

Done(r) == pc[r] = "done"

Status(r) == response[r].status

\* the upstream fetch of r failed: it threw or answered a non-2xx status
UpstreamFailed(r) ==
  /\ upstream[r] # None
  /\ upstream[r].threw \/ upstream[r].status \notin 200 .. 299

\* the upstream fetch of r succeeded: a 2xx status and a body that parses
\* to a JSON object
UpstreamSucceeded(r) ==
  /\ upstream[r] # None
  /\ ~upstream[r].threw
  /\ upstream[r].status \in 200 .. 299
  /\ upstream[r].parses
  /\ upstream[r].data.t = "object"

LighthousePaths == {p \in TrackedPaths : p.group = "lighthouseMetrics"}

\* the dbRecord field each lighthouseMetrics label is stored in
FieldOf(label) ==
  CASE label = "First Contentful Paint" -> "first_content_paint"
    [] label = "Speed Index" -> "speed_index"
    [] label = "Largest Contentful Paint" -> "largest_content_paint"
    [] label = "Total Blocking Time" -> "total_blocking_time"
    [] label = "Time To Interactive" -> "time_to_interactive"

\* the document holds a display value that is truthy and no string
NonStringDisplay(data) ==
  \E p \in LighthousePaths :
    LET v == Walk(data, p.path)
    IN v.t = "object" \/ (v.t = "number" /\ v.n # Zero)

\* C1 as stated: a request whose upstream fetch succeeded is answered 200
\* with the metrics payload whatever the insert did, and without databaseId
\* when the insert failed.
C1_Original ==
  \A r \in Requests :
    (Done(r) /\ UpstreamSucceeded(r)) =>
      /\ Status(r) = 200
      /\ {"cruxMetrics", "lighthouseMetrics"} \subseteq DOMAIN response[r].body
      /\ (inserted[r].outcome # "row" => "databaseId" \notin DOMAIN response[r].body)

\* C2: when the upstream API answers a non-success status or the upstream
\* call throws, the endpoint answers 500 with the body
\* {error: "Failed to fetch PageSpeed data"} and none of the payload fields.
C2_UpstreamFailure500 ==
  \A r \in Requests :
    (Done(r) /\ UpstreamFailed(r)) =>
      /\ Status(r) = 500
      /\ response[r].body = [error |-> "Failed to fetch PageSpeed data"]
      /\ DOMAIN response[r].body
           \cap {"id", "cruxMetrics", "lighthouseMetrics", "databaseId"} = {}

\* C2 witness: an upstream answer of status 500 has been answered with 500
C2_Witness ==
  \E r \in Requests :
    /\ Done(r)
    /\ upstream[r] # None
    /\ ~upstream[r].threw
    /\ upstream[r].status = 500
    /\ Status(r) = 500

C4_Original ==
  \A r \in Requests :
    (Done(r) /\ UpstreamSucceeded(r)) => inserts[r] = 1

C6_Original ==
  \A r \in Requests :
    (Done(r) /\ UpstreamSucceeded(r)) =>
      /\ Status(r) = 200
      /\ dbRecord[r] # None
      /\ \A p \in LighthousePaths :
           LET v == Walk(upstream[r].data, p.path)
           IN (v.t # "string" \/ ~Parses(Stripped(v.s))) =>
                dbRecord[r][FieldOf(p.label)] = Zero

\* the strategy the request asks for: 'desktop' when it names none
Requested(b) == IF b.strategy = JsUndefined THEN JsStr(desktop) ELSE b.strategy

\* the upstream API's name of a strategy
UpstreamName(st) ==
  CASE st = JsStr(desktop) -> JsStr(<<"D", "E", "S", "K", "T", "O", "P">>)
    [] st = JsStr(mobile) -> JsStr(<<"M", "O", "B", "I", "L", "E">>)
    [] st = JsStr(tablet) -> JsStr(<<"T", "A", "B", "L", "E", "T">>)

\* C10: the record the endpoint inserts carries the url and the strategy of
\* the request, 'desktop' when the request omits it, and the upstream API
\* is queried with that url and that strategy (in upper case).
C10_RecordCarriesRequest ==
  \A r \in Requests :
    /\ dbRecord[r] # None =>
         /\ dbRecord[r].url = body[r].url
         /\ dbRecord[r].device_strategy = Requested(body[r])
         /\ query[r].url = body[r].url
         /\ query[r].strategy = UpstreamName(dbRecord[r].device_strategy)
    /\ inserted[r].outcome = "row" =>
         \E i \in DOMAIN store :
           /\ store[i].id = inserted[r].id
           /\ store[i].url = body[r].url
           /\ store[i].device_strategy = Requested(body[r])

\* C10 witness: a request naming no strategy has been stored as desktop and
\* queried as DESKTOP, and one naming mobile has been stored as mobile
C10_Witness ==
  \E r, q \in Requests :
    /\ inserted[r].outcome = "row" /\ inserted[q].outcome = "row"
    /\ body[r].strategy = JsUndefined
    /\ query[r].strategy = JsStr(<<"D", "E", "S", "K", "T", "O", "P">>)
    /\ body[q].strategy = JsStr(mobile)
    /\ \E i, j \in DOMAIN store :
         /\ store[i].id = inserted[r].id
         /\ store[i].device_strategy = JsStr(desktop)
         /\ store[i].url = JsStr(UrlA)
         /\ store[j].id = inserted[q].id
         /\ store[j].device_strategy = JsStr(mobile)

\* C11 as stated: every record the system persists has a device-class label
\* that is desktop or mobile, for every request the endpoint accepts.
C11_Original ==
  \A i \in DOMAIN store :
    store[i].device_strategy \in {JsStr(desktop), JsStr(mobile)}

\* ------------------------------------------------------------------------
\* new URL(s).hostname
\* ------------------------------------------------------------------------

LowerChar(c) ==
  IF \E i \in DOMAIN Upper : Upper[i] = c
  THEN Lower[CHOOSE i \in DOMAIN Upper : Upper[i] = c]
  ELSE c

\* String.prototype.toLowerCase
ToLowerCase(s) == [i \in DOMAIN s |-> LowerChar(s[i])]

Letters == {Lower[i] : i \in DOMAIN Lower} \cup {Upper[i] : i \in DOMAIN Upper}

\* index of the first character of s that is in set, 0 when there is none
FirstIn(s, set) ==
  IF \E i \in DOMAIN s : s[i] \in set
  THEN CHOOSE i \in DOMAIN s : s[i] \in set /\ \A j \in 1 .. i - 1 : s[j] \notin set
  ELSE 0

\* index of the last character of s that is in set, 0 when there is none
LastIn(s, set) ==
  IF \E i \in DOMAIN s : s[i] \in set
  THEN CHOOSE i \in DOMAIN s :
         s[i] \in set /\ \A j \in i + 1 .. Len(s) : s[j] \notin set
  ELSE 0

\* the schemes whose URLs have a host that is a domain
SpecialSchemes ==
  {<<"h", "t", "t", "p">>, <<"h", "t", "t", "p", "s">>, <<"f", "t", "p">>,
   <<"w", "s">>, <<"w", "s", "s">>}

\* code points a domain may not hold
ForbiddenHostChars ==
  {" ", "#", "%", "/", ":", "<", ">", "?", "@", "[", "\\", "]", "^", "|"}

RECURSIVE SkipSlashes(_)
SkipSlashes(s) ==
  IF s # <<>> /\ Head(s) \in {"/", "\\"} THEN SkipSlashes(Tail(s)) ELSE s

\* the hostname of the URL with every host upper-cased character kept
UrlHostnameNoLowerCase(s) ==
  LET colon == FirstIn(s, {":"})
      scheme == ToLowerCase(SubSeq(s, 1, colon - 1))
      rest == SkipSlashes(Drop(s, colon))
      stop == FirstIn(rest, {"/", "?", "#", "\\"})
      authority == IF stop = 0 THEN rest ELSE SubSeq(rest, 1, stop - 1)
      at == LastIn(authority, {"@"})
      hostport == Drop(authority, at)
      pcolon == FirstIn(hostport, {":"})
      host == IF pcolon = 0 THEN hostport ELSE SubSeq(hostport, 1, pcolon - 1)
  IN IF colon = 0 \/ scheme \notin SpecialSchemes \/ host = <<>> THEN Threw
     ELSE Returned(host)

\* new URL(s).hostname for a string s: a TypeError when s has no scheme, an
\* empty or forbidden host or a port that is no number; the host in lower
\* case otherwise.  URLs of the special schemes are parsed (http, https,
\* ftp, ws, wss); of any other scheme the host after "//" is returned as
\* written.  Percent-decoding, IDNA and IPv4 numbers are left out.
UrlHostname(s) ==
  LET colon == FirstIn(s, {":"})
      scheme == ToLowerCase(SubSeq(s, 1, colon - 1))
      schemeOk ==
        /\ colon > 1
        /\ s[1] \in Letters
        /\ \A i \in 1 .. colon - 1 : s[i] \in Letters \cup Digits \cup {"+", "-", "."}
      special == scheme \in SpecialSchemes
      after == Drop(s, colon)
      hasAuthority ==
        special \/ (Len(after) >= 2 /\ after[1] = "/" /\ after[2] = "/")
      rest == SkipSlashes(after)
      stop == FirstIn(rest, IF special THEN {"/", "?", "#", "\\"} ELSE {"/", "?", "#"})
      authority == IF stop = 0 THEN rest ELSE SubSeq(rest, 1, stop - 1)
      at == LastIn(authority, {"@"})
      hostport == Drop(authority, at)
      pcolon == FirstIn(hostport, {":"})
      host == IF pcolon = 0 THEN hostport ELSE SubSeq(hostport, 1, pcolon - 1)
      port == IF pcolon = 0 THEN <<>> ELSE Drop(hostport, pcolon)
  IN IF ~schemeOk THEN Threw
     ELSE IF ~hasAuthority THEN Returned(<<>>)
     ELSE IF \E i \in DOMAIN port : port[i] \notin Digits THEN Threw
     ELSE IF special /\ host = <<>> THEN Threw
     ELSE IF \E i \in DOMAIN host : host[i] \in ForbiddenHostChars THEN Threw
     ELSE Returned(IF special THEN ToLowerCase(host) ELSE host)

\* ------------------------------------------------------------------------
\* new Date(v): time values
\* ------------------------------------------------------------------------

IsLeap(y) == (y % 4 = 0 /\ y % 100 # 0) \/ y % 400 = 0

DaysInMonth(y, m) ==
  CASE m \in {1, 3, 5, 7, 8, 10, 12} -> 31
    [] m \in {4, 6, 9, 11} -> 30
    [] OTHER -> IF IsLeap(y) THEN 29 ELSE 28

\* MakeDay: days from 1970-01-01 to the civil date y-m-d
DaysFromCivil(y, m, d) ==
  LET yy == IF m <= 2 THEN y - 1 ELSE y
      era == yy \div 400
      yoe == yy - era * 400
      mp == IF m > 2 THEN m - 3 ELSE m + 9
      doy == (153 * mp + 2) \div 5 + d - 1
      doe == yoe * 365 + yoe \div 4 - yoe \div 100 + doy
  IN era * 146097 + doe - 719468

AllDigits(s) == \A i \in DOMAIN s : s[i] \in Digits

\* Date.parse(s) for the date-only forms of the Date Time String Format,
\* YYYY, YYYY-MM and YYYY-MM-DD (UTC midnight); NaN for a string of no
\* such form.  Forms with a time of day are left out, so a time value is
\* counted in whole days (of 86400000 ms each) since the epoch.
DateParse(s) ==
  LET wellFormed ==
        /\ Len(s) \in {4, 7, 10}
        /\ AllDigits(SubSeq(s, 1, 4))
        /\ Len(s) >= 7 => (s[5] = "-" /\ AllDigits(SubSeq(s, 6, 7)))
        /\ Len(s) = 10 => (s[8] = "-" /\ AllDigits(SubSeq(s, 9, 10)))
      y == DigitsToNat(SubSeq(s, 1, 4), 0)
      m == IF Len(s) >= 7 THEN DigitsToNat(SubSeq(s, 6, 7), 0) ELSE 1
      d == IF Len(s) = 10 THEN DigitsToNat(SubSeq(s, 9, 10), 0) ELSE 1
  IN IF ~wellFormed THEN NaN
     ELSE IF m < 1 \/ m > 12 \/ d < 1 \/ d > DaysInMonth(y, m) THEN NaN
     ELSE LET days == DaysFromCivil(y, m, d)
          IN Dec(days < 0, IF days < 0 THEN -days ELSE days, 0)

\* the time value of new Date(v), v a string or a number; the one number
\* the code passes is 0, the epoch
DateOf(v) ==
  CASE v.t = "string" -> DateParse(v.s)
    [] v.t = "number" -> v.n
    [] OTHER -> NaN

\* ------------------------------------------------------------------------
\* Comparison of numbers and Array.prototype.sort
\* ------------------------------------------------------------------------

\* numerator of a number over the denominator 10^e
Scaled(x, e) == (IF x.neg THEN -1 ELSE 1) * x.m * Pow10(e - x.e)

MaxOf(a, b) == IF a >= b THEN a ELSE b

\* x < y on numbers: false when either is NaN
NumLt(x, y) ==
  /\ ~x.nan
  /\ ~y.nan
  /\ Scaled(x, MaxOf(x.e, y.e)) < Scaled(y, MaxOf(x.e, y.e))

\* the sign of x - y; 0 stands for a difference that is NaN as well, which
\* sort reads as 0
SignOfDiff(x, y) ==
  IF NumLt(x, y) THEN -1 ELSE IF NumLt(y, x) THEN 1 ELSE 0

IndexPermutations(n) ==
  {p \in [1 .. n -> 1 .. n] : \A i, j \in 1 .. n : p[i] = p[j] => i = j}

\* c, the comparator's results on the elements at each pair of indices, is
\* a consistent comparison: it orders the elements in a strict weak order
ConsistentComparator(n, c) ==
  /\ \A i \in 1 .. n : c[i, i] = 0
  /\ \A i, j \in 1 .. n : c[i, j] = -c[j, i]
  /\ \A i, j, k \in 1 .. n : (c[i, j] < 0 /\ c[j, k] < 0) => c[i, k] < 0
  /\ \A i, j, k \in 1 .. n : (c[i, j] = 0 /\ c[j, k] = 0) => c[i, k] = 0

RECURSIVE InsertIndex(_, _, _)
\* sorted with index x put behind every index that does not come after it
InsertIndex(sorted, x, c) ==
  IF sorted = <<>> THEN <<x>>
  ELSE IF c[Head(sorted), x] > 0 THEN <<x>> \o sorted
  ELSE <<Head(sorted)>> \o InsertIndex(Tail(sorted), x, c)

RECURSIVE StableOrder(_, _)
\* the indices 1..n in the order of a stable sort by c
StableOrder(n, c) ==
  IF n = 0 THEN <<>> ELSE InsertIndex(StableOrder(n - 1, c), n, c)

\* the orders Array.prototype.sort may leave n elements in: the stable
\* sorted order when the comparator is consistent, an implementation-defined
\* order (any permutation) when it is not
SortOrders(n, c) ==
  IF ConsistentComparator(n, c) THEN {StableOrder(n, c)}
  ELSE {[i \in 1 .. n |-> p[i]] : p \in IndexPermutations(n)}

\* the array a in the order given by a sequence of its indices
Reorder(a, order) == [i \in DOMAIN order |-> a[order[i]]]

\* ------------------------------------------------------------------------
\* ResultsHistory: the filters and the sort of fetchResults
\* ------------------------------------------------------------------------

MaxRows == 2

UrlWww == <<"h", "t", "t", "p", "s", ":", "/", "/", "w", "w", "w", ".", "a", ".", "c", "o", "m", "/", "y">>

UrlUpperPort == <<"H", "T", "T", "P", "S", ":", "/", "/", "A", ".", "c", "o", "m", ":", "8", "0", "8", "0", "/", "z">>

BareDomain == <<"a", ".", "c", "o", "m">>

DomainA == <<"a", ".", "c", "o", "m">>

DomainWww == <<"w", "w", "w", ".", "a", ".", "c", "o", "m">>

SortFields ==
  {"created_at", "first_content_paint", "speed_index", "largest_content_paint",
   "total_blocking_time", "time_to_interactive"}

MetricFields == SortFields \ {"created_at"}

SortDirections == {"asc", "desc"}

IdOf(i) == JsNum(Dec(FALSE, i, 0))

\* a row of the results table as the results route returns it; a column
\* without a value is null
HistoryRow(i, url, device, created, metric) ==
  [id |-> IdOf(i), created_at |-> created, url |-> url,
   device_strategy |-> device, first_content_paint |-> metric,
   speed_index |-> metric, largest_content_paint |-> metric,
   total_blocking_time |-> metric, time_to_interactive |-> metric]

\* result.url passes the domain filter
MatchesWebsite(row, website) ==
  /\ Truthy(row.url)
  /\ LET hostname == UrlHostname(row.url.s)
     IN ~hostname.threw /\ hostname.val = website.s

\* the domain filter with the hostname matched as a suffix
FilterBySuffix(data, website) ==
  LET Test(r) ==
        /\ Truthy(r.url)
        /\ LET h == UrlHostname(r.url.s)
           IN /\ ~h.threw
              /\ Len(h.val) >= Len(website.s)
              /\ Drop(h.val, Len(h.val) - Len(website.s)) = website.s
  IN IF Truthy(website) THEN SelectSeq(data, Test) ELSE data

\* if (selectedWebsite) filteredResults = data.results.filter(...)
FilterByWebsite(data, website) ==
  LET Test(r) == MatchesWebsite(r, website)
  IN IF Truthy(website) THEN SelectSeq(data, Test) ELSE data

\* the device filter applied whatever its value
FilterByStrategyAlways(data, filter) ==
  LET Test(r) == r.device_strategy = JsStr(filter)
  IN SelectSeq(data, Test)

\* if (strategyFilter !== 'all') filteredResults = filteredResults.filter(...)
FilterByStrategy(data, filter) ==
  LET Test(r) == r.device_strategy = JsStr(filter)
  IN IF filter # all THEN SelectSeq(data, Test) ELSE data

\* aValue of the sort comparator, as the number the comparison converts it to
SortValue(a, field) ==
  IF field = "created_at" THEN DateOf(JsOr(a.created_at, JsNum(Zero)))
  ELSE JsOr(a[field], JsNum(Zero)).n

\* the comparator of sortResults on the elements of data, by index
SortComparator(data, field, direction) ==
  [i \in DOMAIN data, j \in DOMAIN data |->
     LET aValue == SortValue(data[i], field)
         bValue == SortValue(data[j], field)
     IN IF NumLt(aValue, bValue) THEN (IF direction = "asc" THEN -1 ELSE 1)
        ELSE IF NumLt(bValue, aValue) THEN (IF direction = "asc" THEN 1 ELSE -1)
        ELSE 0]

\* sortResults(data, field, direction): the arrays [...data].sort(...) may
\* return
sortResults(data, field, direction) ==
  {Reorder(data, order) :
     order \in SortOrders(Len(data), SortComparator(data, field, direction))}

\* what fetchResults hands to setResults for the fetched rows data
FetchedView(data, website, filter, field, direction) ==
  sortResults(FilterByStrategy(FilterByWebsite(data, website), filter),
              field, direction)

ViewUrls ==
  {JsNull, JsStr(UrlA), JsStr(UrlWww), JsStr(UrlUpperPort), JsStr(BareDomain)}

ViewDevices == {JsStr(desktop), JsStr(mobile), JsNull}

Day(i) == JsStr(<<"2", "0", "2", "4", "-", "0", "1", "-", "0">>
                \o <<CHOOSE c \in Digits : DigitVal(c) = i>>)

\* the arrays of n rows the results route may answer with
ViewData(n) ==
  {[i \in 1 .. n |-> HistoryRow(i, f[i][1], f[i][2], Day(i), IdOf(i))] :
     f \in [1 .. n -> ViewUrls \X ViewDevices]}

ViewInputs ==
  [data : UNION {ViewData(n) : n \in 0 .. MaxRows},
   selectedWebsite : {JsNull, JsStr(DomainA), JsStr(DomainWww)},
   strategyFilter : {all, desktop, mobile},
   sortField : {"created_at", "speed_index"},
   sortDirection : SortDirections]

InitView ==
  /\ ViewIdle
  /\ EndpointIdle
  /\ fnIn \in ViewInputs
  /\ fnOut = None

\* the try block of fetchResults on a response that is ok
ViewStep ==
  /\ fnOut = None
  /\ \E v \in FetchedView(fnIn.data, fnIn.selectedWebsite, fnIn.strategyFilter,
                          fnIn.sortField, fnIn.sortDirection) :
       fnOut' = [results |-> v, error |-> JsNull]
  /\ UNCHANGED <<reqVars, fnIn, viewVars>>

NextView == ViewStep

SpecView == InitView /\ [][NextView]_vars

\* the rows of a sequence, as a set
RowsOf(rows) == {rows[k] : k \in DOMAIN rows}

\* the view holds no row twice
NoRowTwice(rows) == Cardinality(RowsOf(rows)) = Len(rows)

\* the hostname of a row's URL is the selected domain
HostIs(row, website) ==
  /\ row.url.t = "string"
  /\ UrlHostname(row.url.s) = Returned(website.s)

PassesDevice(row, filter) == filter = all \/ row.device_strategy = JsStr(filter)

PassesDomain(row, website) == ~Truthy(website) \/ HostIs(row, website)

\* C12: with a domain selected the view holds exactly the fetched records
\* whose URL parses and has a hostname equal to the selected domain (among
\* those the device filter lets through): a record without a URL or with a
\* URL that does not parse is left out and no error is set, and a hostname
\* that merely ends with the selected domain does not match.
C12_DomainFilter ==
  (fnOut # None /\ "results" \in DOMAIN fnOut /\ Truthy(fnIn.selectedWebsite)) =>
    /\ fnOut.error = JsNull
    /\ NoRowTwice(fnOut.results)
    /\ \A row \in RowsOf(fnOut.results) :
         row \in RowsOf(fnIn.data) /\ HostIs(row, fnIn.selectedWebsite)
    /\ \A row \in RowsOf(fnIn.data) :
         (HostIs(row, fnIn.selectedWebsite) /\ PassesDevice(row, fnIn.strategyFilter))
           => row \in RowsOf(fnOut.results)
    /\ \A row \in RowsOf(fnOut.results) :
         /\ row.url \notin {JsNull, JsStr(BareDomain)}
         /\ fnIn.selectedWebsite = JsStr(DomainA) => row.url # JsStr(UrlWww)
         /\ fnIn.selectedWebsite = JsStr(DomainWww) => row.url = JsStr(UrlWww)

\* a URL under www.a.com and a URL under a.com were fetched with a.com
\* selected, and the view holds the second alone
C12_Witness ==
  /\ fnOut # None
  /\ "results" \in DOMAIN fnOut
  /\ fnIn.selectedWebsite = JsStr(DomainA)
  /\ fnIn.strategyFilter = all
  /\ \E i, j \in DOMAIN fnIn.data :
       /\ fnIn.data[i].url = JsStr(UrlWww)
       /\ fnIn.data[j].url = JsStr(UrlUpperPort)
       /\ fnOut.results = <<fnIn.data[j]>>

\* C13: with a device filter set the view holds exactly the fetched records
\* that pass the domain filter and whose device label equals the filter
\* value; with no domain selected and the filter at "all" the view holds
\* every fetched record.
C13_DeviceFilter ==
  (fnOut # None /\ "results" \in DOMAIN fnOut) =>
    /\ NoRowTwice(fnOut.results)
    /\ fnIn.strategyFilter # all =>
         RowsOf(fnOut.results) =
           {row \in RowsOf(fnIn.data) :
              /\ row.device_strategy = JsStr(fnIn.strategyFilter)
              /\ PassesDomain(row, fnIn.selectedWebsite)}
    /\ (fnIn.strategyFilter = all /\ fnIn.selectedWebsite = JsNull) =>
         RowsOf(fnOut.results) = RowsOf(fnIn.data)

\* a desktop record and a mobile record were fetched with the filter at
\* mobile, and the view holds the mobile record alone
C13_Witness ==
  /\ fnOut # None
  /\ "results" \in DOMAIN fnOut
  /\ fnIn.strategyFilter = mobile
  /\ fnIn.selectedWebsite = JsNull
  /\ \E i, j \in DOMAIN fnIn.data :
       /\ fnIn.data[i].device_strategy = JsStr(desktop)
       /\ fnIn.data[j].device_strategy = JsStr(mobile)
       /\ fnOut.results = <<fnIn.data[j]>>

\* ------------------------------------------------------------------------
\* sortResults on its own
\* ------------------------------------------------------------------------

MaxSortRows == 3

Date0101 == <<"2", "0", "2", "4", "-", "0", "1", "-", "0", "1">>

Date0103 == <<"2", "0", "2", "4", "-", "0", "1", "-", "0", "3">>

\* a creation time that is no date
Garbage == <<"x">>

SortCreated == {JsNull, JsStr(Date0101), JsStr(Date0103), JsStr(Garbage)}

SortMetrics == {JsNull, JsNum(Dec(FALSE, 2, 0))}

\* the arrays of n rows sortResults may be given
SortData(n) ==
  {[i \in 1 .. n |-> HistoryRow(i, JsStr(UrlA), JsStr(mobile), f[i][1], f[i][2])] :
     f \in [1 .. n -> SortCreated \X SortMetrics]}

SortInputs ==
  [data : UNION {SortData(n) : n \in 0 .. MaxSortRows},
   field : SortFields,
   direction : SortDirections]

InitSort ==
  /\ ViewIdle
  /\ EndpointIdle
  /\ fnIn \in SortInputs
  /\ fnOut = None

\* the argument array after a sort that worked on the array itself
InputSortedInPlace(data, sorted) == sorted

\* the argument array after sortResults returned sorted: [...data] is a copy,
\* so sort leaves the array it was given as it was
InputAfterSort(data, sorted) == data

SortStep ==
  /\ fnOut = None
  /\ \E v \in sortResults(fnIn.data, fnIn.field, fnIn.direction) :
       /\ fnOut' = [sorted |-> v]
       /\ fnIn' = [fnIn EXCEPT !.data = InputAfterSort(fnIn.data, v)]
  /\ UNCHANGED <<reqVars, viewVars>>

NextSort == SortStep

SpecSort == InitSort /\ [][NextSort]_vars

\* the value a record is ordered by under the stated comparison: its
\* creation time as a timestamp, or its metric with a missing value as zero
StatedKey(row, field) ==
  IF field = "created_at"
  THEN (IF row.created_at.t = "string" THEN DateParse(row.created_at.s) ELSE Zero)
  ELSE (IF row[field].t = "number" THEN row[field].n ELSE Zero)

\* no record comes before a record that the stated comparison puts first
Monotonic(rows, field, direction) ==
  \A i, j \in DOMAIN rows :
    i < j =>
      IF direction = "asc"
      THEN ~NumLt(StatedKey(rows[j], field), StatedKey(rows[i], field))
      ELSE ~NumLt(StatedKey(rows[i], field), StatedKey(rows[j], field))

\* C14 as stated: for each sort field and both directions, and for every
\* record collection, records with a missing or unparseable creation time or
\* a missing numeric value included, the sequence sortResults returns is
\* monotonic in the chosen direction.
C14_Original ==
  (fnOut # None /\ "sorted" \in DOMAIN fnOut) =>
    Monotonic(fnOut.sorted, fnIn.field, fnIn.direction)

\* ------------------------------------------------------------------------
\* Sidenav: fetchWebsiteGroups
\* ------------------------------------------------------------------------

MaxGroupRows == 3

UrlB == <<"h", "t", "t", "p", "s", ":", "/", "/", "b", ".", "o", "r", "g", "/">>

DomainB == <<"b", ".", "o", "r", "g">>

Last(rows) == rows[Len(rows)]

Front(rows) == SubSeq(rows, 1, Len(rows) - 1)

\* the key a row is grouped under, were it the URL as written
DomainOfRowRaw(row) ==
  IF Truthy(row.url) THEN Returned(row.url.s) ELSE Threw

\* the key of the group a row is pushed to; Threw stands for a row that is
\* skipped, its url falsy or rejected by new URL
DomainOfRow(row) ==
  IF Truthy(row.url) THEN UrlHostname(row.url.s) ELSE Threw

RECURSIVE GroupKeys(_)
\* the keys of groupMap in insertion order
GroupKeys(data) ==
  IF data = <<>> THEN <<>>
  ELSE LET front == GroupKeys(Front(data))
           domain == DomainOfRow(Last(data))
       IN IF domain.threw \/ \E k \in DOMAIN front : front[k] = domain.val
          THEN front
          ELSE Append(front, domain.val)

\* groupMap.get(domain): the rows pushed under a key, in the order fetched
GroupRows(data, domain) ==
  LET Test(row) == DomainOfRow(row) = Returned(domain)
  IN SelectSeq(data, Test)

\* new Date(row.created_at || 0).getTime()
CreatedTime(row) == DateOf(JsOr(row.created_at, JsNum(Zero)))

\* (a, b) => new Date(b.created_at || 0).getTime() - new Date(a.created_at || 0).getTime()
GroupSortComparator(rows) ==
  [i \in DOMAIN rows, j \in DOMAIN rows |->
     SignOfDiff(CreatedTime(rows[j]), CreatedTime(rows[i]))]

\* a group built from the last of its sorted records
WebsiteGroupOfLast(domain, sortedResults) ==
  [url |-> JsOr(Last(sortedResults).url, JsStr(domain)),
   domain |-> domain,
   count |-> Len(sortedResults),
   lastTested |-> JsOr(Last(sortedResults).created_at, JsStr(<<>>)),
   results |-> sortedResults]

\* the WebsiteGroup object of a key and its sorted records
WebsiteGroup(domain, sortedResults) ==
  [url |-> JsOr(sortedResults[1].url, JsStr(domain)),
   domain |-> domain,
   count |-> Len(sortedResults),
   lastTested |-> JsOr(sortedResults[1].created_at, JsStr(<<>>)),
   results |-> sortedResults]

\* the groups a key's rows may be turned into
GroupsOfKey(data, domain) ==
  LET rows == GroupRows(data, domain)
  IN {WebsiteGroup(domain, Reorder(rows, order)) :
        order \in SortOrders(Len(rows), GroupSortComparator(rows))}

RECURSIVE MapKeys(_, _)
\* the arrays .map(...) may turn the entries of the given keys into
MapKeys(data, keys) ==
  IF keys = <<>> THEN {<<>>}
  ELSE {Append(g, group) :
          g \in MapKeys(data, Front(keys)),
          group \in GroupsOfKey(data, Last(keys))}

\* Array.from(groupMap.entries()).map(...): the arrays of groups before the
\* final sort
MappedGroups(data) == MapKeys(data, GroupKeys(data))

\* (a, b) => new Date(b.lastTested).getTime() - new Date(a.lastTested).getTime()
GroupsComparator(groups) ==
  [i \in DOMAIN groups, j \in DOMAIN groups |->
     SignOfDiff(DateOf(groups[j].lastTested), DateOf(groups[i].lastTested))]

\* the arrays fetchWebsiteGroups may hand to setWebsiteGroups
fetchWebsiteGroups(data) ==
  UNION {{Reorder(g, order) :
            order \in SortOrders(Len(g), GroupsComparator(g))} :
         g \in MappedGroups(data)}

GroupUrls ==
  {JsNull, JsStr(BareDomain), JsStr(UrlA), JsStr(UrlUpperPort), JsStr(UrlWww),
   JsStr(UrlB)}

\* the creation times the store hands out, and none
GroupCreated == {JsNull, JsStr(Date0101), JsStr(Date0103)}

\* an array of rows the results route may answer the side panel with, row i
\* with the URL and the creation time f[i]
GroupData(f) ==
  [i \in DOMAIN f |-> HistoryRow(i, f[i][1], JsStr(mobile), f[i][2], IdOf(i))]

InitGroups ==
  /\ ViewIdle
  /\ EndpointIdle
  /\ \E n \in 0 .. MaxGroupRows :
       \E f \in [1 .. n -> GroupUrls \X GroupCreated] : fnIn = GroupData(f)
  /\ fnOut = None

GroupStep ==
  /\ fnOut = None
  /\ \E g \in fetchWebsiteGroups(fnIn) : fnOut' = [groups |-> g]
  /\ UNCHANGED <<reqVars, fnIn, viewVars>>

NextGroups == GroupStep

SpecGroups == InitGroups /\ [][NextGroups]_vars

Grouped == fnOut # None /\ "groups" \in DOMAIN fnOut

\* the URL of a row parses
UrlParses(row) == row.url.t = "string" /\ ~UrlHostname(row.url.s).threw

\* the groups that hold a row
GroupsHolding(row) ==
  {k \in DOMAIN fnOut.groups : row \in RowsOf(fnOut.groups[k].results)}

\* C15: grouping partitions the fetched records by hostname: a record whose
\* URL parses is in exactly one group, the group of its hostname; a record
\* with a missing or malformed URL is in no group; no two groups share a
\* domain, and the count of a group is the number of records it holds.
C15_Partition ==
  Grouped =>
    /\ \A k, l \in DOMAIN fnOut.groups :
         fnOut.groups[k].domain = fnOut.groups[l].domain => k = l
    /\ \A k \in DOMAIN fnOut.groups :
         /\ RowsOf(fnOut.groups[k].results) \subseteq RowsOf(fnIn)
         /\ NoRowTwice(fnOut.groups[k].results)
         /\ fnOut.groups[k].count = Len(fnOut.groups[k].results)
         /\ fnOut.groups[k].count > 0
    /\ \A row \in RowsOf(fnIn) :
         IF UrlParses(row)
         THEN /\ Cardinality(GroupsHolding(row)) = 1
              /\ \A k \in GroupsHolding(row) :
                   Returned(fnOut.groups[k].domain) = UrlHostname(row.url.s)
         ELSE GroupsHolding(row) = {}
    /\ \A row \in RowsOf(fnIn) :
         row.url \in {JsNull, JsStr(BareDomain)} => GroupsHolding(row) = {}

\* two records under a.com and one whose URL is no URL were fetched, and
\* the one group there is holds the two
C15_Witness ==
  /\ Grouped
  /\ Len(fnIn) = 3
  /\ fnIn[1].url = JsStr(UrlA)
  /\ fnIn[2].url = JsStr(BareDomain)
  /\ fnIn[3].url = JsStr(UrlUpperPort)
  /\ Len(fnOut.groups) = 1
  /\ fnOut.groups[1].domain = DomainA
  /\ fnOut.groups[1].count = 2

HasCreated(row) == row.created_at.t = "string"

\* the rows of a group that carry a creation time no other row of the group
\* is later than
Latest(rows) ==
  {row \in RowsOf(rows) :
     /\ HasCreated(row)
     /\ \A other \in RowsOf(rows) :
          HasCreated(other) =>
            ~NumLt(DateParse(row.created_at.s), DateParse(other.created_at.s))}

\* C16: within every group the records are in most-recent-first order, and
\* the representative URL and the most-recent timestamp of the group are
\* those of a record with the latest creation time in the group.
C16_GroupOrder ==
  Grouped =>
    \A k \in DOMAIN fnOut.groups :
      LET rows == fnOut.groups[k].results
      IN /\ \A i, j \in DOMAIN rows :
              (i < j /\ HasCreated(rows[j])) =>
                /\ HasCreated(rows[i])
                /\ ~NumLt(DateParse(rows[i].created_at.s),
                          DateParse(rows[j].created_at.s))
         /\ Latest(rows) # {} =>
              \E row \in Latest(rows) :
                /\ fnOut.groups[k].url = row.url
                /\ fnOut.groups[k].lastTested = row.created_at

\* two records under a.com were fetched, the older first, and the group
\* holds the later first and carries its URL and its creation time
C16_Witness ==
  /\ Grouped
  /\ Len(fnIn) = 2
  /\ fnIn[1].url = JsStr(UrlA)
  /\ fnIn[1].created_at = JsStr(Date0101)
  /\ fnIn[2].url = JsStr(UrlUpperPort)
  /\ fnIn[2].created_at = JsStr(Date0103)
  /\ Len(fnOut.groups) = 1
  /\ fnOut.groups[1].results = <<fnIn[2], fnIn[1]>>
  /\ fnOut.groups[1].url = JsStr(UrlUpperPort)
  /\ fnOut.groups[1].lastTested = JsStr(Date0103)

\* C17 as stated: the list of groups is ordered by most-recent timestamp,
\* descending, for every record collection, those where some group has no
\* record with a creation time included: no group comes before a group with
\* a later most-recent timestamp.
C17_Original ==
  Grouped =>
    \A i, j \in DOMAIN fnOut.groups :
      i < j => ~NumLt(DateOf(fnOut.groups[i].lastTested),
                      DateOf(fnOut.groups[j].lastTested))

\* ------------------------------------------------------------------------
\* ResultsHistory: exportToCSV
\* ------------------------------------------------------------------------

DigitChar(n) == CHOOSE c \in Digits : DigitVal(c) = n

RECURSIVE NatToString(_)
\* the decimal digits of a natural number
NatToString(n) ==
  IF n < 10 THEN <<DigitChar(n)>>
  ELSE NatToString(n \div 10) \o <<DigitChar(n % 10)>>

RECURSIVE PadLeft(_, _)
\* String.prototype.padStart(width, '0')
PadLeft(s, width) == IF Len(s) >= width THEN s ELSE PadLeft(<<"0">> \o s, width)

\* the digits of n with a decimal point ahead of the last d of them
FixedDigits(n, d) ==
  LET digits == PadLeft(NatToString(n), d + 1)
  IN IF d = 0 THEN digits
     ELSE SubSeq(digits, 1, Len(digits) - d) \o <<".">>
          \o SubSeq(digits, Len(digits) - d + 1, Len(digits))

RECURSIVE Pow5(_)
Pow5(n) == IF n = 0 THEN 1 ELSE 5 * Pow5(n - 1)

\* the decimal m / 10^e is a binary fraction, hence a number held exactly
Dyadic(x) == x.m % Pow5(x.e) = 0

\* the integers n for which n / 10^d is as close to |x| as possible, the
\* larger of two.  A number is held as the nearest binary fraction: a
\* decimal half way between two candidates that is no binary fraction is held
\* a little under or a little over, and either candidate may come out.
FixedCandidates(x, d) ==
  IF x.e <= d THEN {x.m * Pow10(d - x.e)}
  ELSE LET unit == Pow10(x.e - d)
           q == x.m \div unit
           r == x.m % unit
       IN IF 2 * r < unit THEN {q}
          ELSE IF 2 * r > unit THEN {q + 1}
          ELSE IF Dyadic(x) THEN {q + 1}
          ELSE {q, q + 1}

\* toFixed that drops the digits beyond the d-th
ToFixedTruncating(x, d) ==
  IF x.nan THEN {<<"N", "a", "N">>}
  ELSE {(IF x.neg THEN <<"-">> ELSE <<>>)
        \o FixedDigits(IF x.e <= d THEN x.m * Pow10(d - x.e)
                       ELSE x.m \div Pow10(x.e - d), d)}

\* the strings x.toFixed(d) may return for the number x (below 10^21)
ToFixed(x, d) ==
  IF x.nan THEN {<<"N", "a", "N">>}
  ELSE {(IF x.neg THEN <<"-">> ELSE <<>>) \o FixedDigits(n, d) :
          n \in FixedCandidates(x, d)}

\* the civil date of a day count, <<year, month, day>>
CivilFromDays(days) ==
  LET z == days + 719468
      era == z \div 146097
      doe == z - era * 146097
      yoe == (doe - doe \div 1460 + doe \div 36524 - doe \div 146096) \div 365
      doy == doe - (365 * yoe + yoe \div 4 - yoe \div 100)
      mp == (5 * doy + 2) \div 153
      d == doy - (153 * mp + 2) \div 5 + 1
      m == IF mp < 10 THEN mp + 3 ELSE mp - 9
  IN <<yoe + era * 400 + (IF m <= 2 THEN 1 ELSE 0), m, d>>

\* Date.prototype.toISOString of a time value at midnight, years 0 to 9999:
\* a RangeError for an Invalid Date
ToISOString(t) ==
  IF t.nan THEN Threw
  ELSE LET civil == CivilFromDays(IF t.neg THEN -t.m ELSE t.m)
       IN Returned(PadLeft(NatToString(civil[1]), 4) \o <<"-">>
                   \o PadLeft(NatToString(civil[2]), 2) \o <<"-">>
                   \o PadLeft(NatToString(civil[3]), 2)
                   \o <<"T", "0", "0", ":", "0", "0", ":", "0", "0", ".",
                        "0", "0", "0", "Z">>)

\* `${field}`: ToString of a string or a number
TemplateString(v) ==
  IF v.t = "string" THEN v.s
  ELSE IF v.n.nan THEN <<"N", "a", "N">>
  ELSE (IF v.n.neg THEN <<"-">> ELSE <<>>) \o FixedDigits(v.n.m, v.n.e)

RECURSIVE Join(_, _)
\* Array.prototype.join of an array of strings
Join(strings, sep) ==
  IF strings = <<>> THEN <<>>
  ELSE IF Len(strings) = 1 THEN strings[1]
  ELSE strings[1] \o sep \o Join(Tail(strings), sep)

Quote == "\""

CsvHeaders ==
  <<<<"I", "D">>,
    <<"C", "r", "e", "a", "t", "e", "d", " ", "A", "t">>,
    <<"U", "R", "L">>,
    <<"D", "e", "v", "i", "c", "e", " ", "S", "t", "r", "a", "t", "e", "g", "y">>,
    <<"F", "i", "r", "s", "t", " ", "C", "o", "n", "t", "e", "n", "t", " ", "P", "a", "i", "n", "t", " ", "(", "s", ")">>,
    <<"S", "p", "e", "e", "d", " ", "I", "n", "d", "e", "x", " ", "(", "s", ")">>,
    <<"L", "a", "r", "g", "e", "s", "t", " ", "C", "o", "n", "t", "e", "n", "t", " ", "P", "a", "i", "n", "t", " ", "(", "s", ")">>,
    <<"T", "o", "t", "a", "l", " ", "B", "l", "o", "c", "k", "i", "n", "g", " ", "T", "i", "m", "e", " ", "(", "m", "s", ")">>,
    <<"T", "i", "m", "e", " ", "t", "o", " ", "I", "n", "t", "e", "r", "a", "c", "t", "i", "v", "e", " ", "(", "s", ")">>>>

\* x?.toFixed(d) || '' for a column x: '' for null and undefined
FixedOrEmpty(v, d) ==
  IF v.t = "number" THEN ToFixed(v.n, d) ELSE {<<>>}

\* created_at ? new Date(created_at).toISOString() : ''
CreatedField(v) ==
  IF Truthy(v) THEN ToISOString(DateOf(v)) ELSE Returned(<<>>)

\* the arrays of nine strings a record may be turned into (lines 113-123 and
\* the template of line 127); no array when toISOString throws
CsvRows(row) ==
  IF CreatedField(row.created_at).threw THEN {}
  ELSE {<<TemplateString(JsOr(row.id, JsStr(<<>>))),
          CreatedField(row.created_at).val,
          TemplateString(JsOr(row.url, JsStr(<<>>))),
          TemplateString(JsOr(row.device_strategy, JsStr(<<>>))),
          fcp, si, lcp, tbt, tti>> :
          fcp \in FixedOrEmpty(row.first_content_paint, 3),
          si \in FixedOrEmpty(row.speed_index, 3),
          lcp \in FixedOrEmpty(row.largest_content_paint, 3),
          tbt \in FixedOrEmpty(row.total_blocking_time, 0),
          tti \in FixedOrEmpty(row.time_to_interactive, 3)}

\* `"${field}"`
Quoted(field) == <<Quote>> \o field \o <<Quote>>

\* row.map(field => `"${field}"`).join(',')
CsvLine(fields) == Join([i \in DOMAIN fields |-> Quoted(fields[i])], <<",">>)

RECURSIVE CsvLinesOf(_)
\* the arrays of lines the records of the view may be turned into
CsvLinesOf(rows) ==
  IF rows = <<>> THEN {<<>>}
  ELSE {Append(lines, CsvLine(fields)) :
          lines \in CsvLinesOf(Front(rows)), fields \in CsvRows(Last(rows))}

\* exportToCSV: what may happen for the view rows, an alert, a RangeError
\* or the download of a text
exportToCSV(rows) ==
  IF Len(rows) = 0 THEN {[kind |-> "alert"]}
  ELSE IF CsvLinesOf(rows) = {} THEN {[kind |-> "threw"]}
  ELSE {[kind |-> "download",
         csvContent |-> Join(<<CsvLine(CsvHeaders)>> \o lines, <<"\n">>)] :
          lines \in CsvLinesOf(rows)}

MaxExportRows == 2

\* a URL with a query that holds quotes and a comma
UrlQuoted == <<"h", "t", "t", "p", "s", ":", "/", "/", "a", ".", "c", "o", "m", "/", "?", "q", "=", "\"", "x", "\"", ",", "\"", "y", "\"">>

Metric23 == JsNum(Dec(FALSE, 23, 1))

ExportUrls == {JsNull, JsStr(UrlA), JsStr(UrlQuoted)}

ExportCreated == {JsNull, JsStr(Date0103)}

ExportMetrics == {JsNull, JsNum(Zero), Metric23}

\* an array of rows the view may hold, row i with the URL, the creation
\* time and the measurements f[i]
ExportData(f) ==
  [i \in DOMAIN f |-> HistoryRow(i, f[i][1], JsStr(mobile), f[i][2], f[i][3])]

InitExport ==
  /\ ViewIdle
  /\ EndpointIdle
  /\ \E n \in 0 .. MaxExportRows :
       \E f \in [1 .. n -> ExportUrls \X ExportCreated \X ExportMetrics] :
         fnIn = ExportData(f)
  /\ fnOut = None

ExportStep ==
  /\ fnOut = None
  /\ fnOut' \in exportToCSV(fnIn)
  /\ UNCHANGED <<reqVars, fnIn, viewVars>>

NextExport == ExportStep

SpecExport == InitExport /\ [][NextExport]_vars

\* the text split at its line feeds
RECURSIVE SplitLines(_)
SplitLines(text) ==
  LET nl == FirstIn(text, {"\n"})
  IN IF nl = 0 THEN <<text>>
     ELSE <<SubSeq(text, 1, nl - 1)>> \o SplitLines(Drop(text, nl))

RECURSIVE FieldEnd(_, _)
\* the index of the quote that closes a quoted field whose content starts
\* at line[i], a quote written twice being content; 0 when none closes it
FieldEnd(line, i) ==
  IF i > Len(line) THEN 0
  ELSE IF line[i] # Quote THEN FieldEnd(line, i + 1)
  ELSE IF i < Len(line) /\ line[i + 1] = Quote THEN FieldEnd(line, i + 2)
  ELSE i

RECURSIVE QuotedFields(_)
\* the number of fields of a line made of quoted fields with commas between
\* them; -1 for a line that is not of this form
QuotedFields(line) ==
  IF line = <<>> \/ Head(line) # Quote THEN -1
  ELSE LET close == FieldEnd(line, 2)
       IN IF close = 0 THEN -1
          ELSE IF close = Len(line) THEN 1
          ELSE IF line[close + 1] # "," THEN -1
          ELSE LET rest == QuotedFields(Drop(line, close + 1))
               IN IF rest < 0 THEN -1 ELSE rest + 1

Exported == fnOut # None /\ "kind" \in DOMAIN fnOut

\* C18 as stated: the export of a non-empty view is a header line of nine
\* columns and one line per record in view order, every line holds exactly
\* nine fields and every field is wrapped in double quotes, whatever the
\* URLs of the records contain.
C18_Original ==
  (Exported /\ Len(fnIn) > 0) =>
    /\ fnOut.kind = "download"
    /\ LET lines == SplitLines(fnOut.csvContent)
       IN /\ Len(lines) = Len(fnIn) + 1
          /\ \A k \in DOMAIN lines : QuotedFields(lines[k]) = 9
          /\ \A k \in DOMAIN fnIn :
               SubSeq(lines[k + 1], 1, Len(Quoted(TemplateString(fnIn[k].id))))
                 = Quoted(TemplateString(fnIn[k].id))

\* ------------------------------------------------------------------------
\* From a display string to the exported text
\* ------------------------------------------------------------------------

MaxDisplayLen == 5

DisplayAlphabet == {"0", "2", "5", "6", ".", "s"}

\* the row the history view is given for a stored record
FetchedRow(rec, id) ==
  [id |-> IdOf(id), created_at |-> Day(id), url |-> rec.url,
   device_strategy |-> rec.device_strategy,
   first_content_paint |-> JsNum(rec.first_content_paint),
   speed_index |-> JsNum(rec.speed_index),
   largest_content_paint |-> JsNum(rec.largest_content_paint),
   total_blocking_time |-> JsNum(rec.total_blocking_time),
   time_to_interactive |-> JsNum(rec.time_to_interactive)]

\* the arrays of nine strings the export may write for the record that the
\* endpoint builds from display values that all read s
RoundTrip(s) == CsvRows(FetchedRow(BuildRecord(Extract(DocOf(s)).val, BodyA).val, 1))

InitRoundTrip ==
  /\ ViewIdle
  /\ EndpointIdle
  /\ \/ \E n \in 0 .. MaxDisplayLen :
          \E s \in [1 .. n -> DisplayAlphabet] : fnIn = JsStr(s)
     \/ fnIn \in {JsStr(NA), JsStr(Sec23), JsStr(Ms150)}
  /\ fnOut = None

RoundTripStep ==
  /\ fnOut = None
  /\ \E fields \in RoundTrip(fnIn.s) : fnOut' = [fields |-> fields]
  /\ UNCHANGED <<reqVars, fnIn, viewVars>>

NextRoundTrip == RoundTripStep

SpecRoundTrip == InitRoundTrip /\ [][NextRoundTrip]_vars

\* the natural number written by the digits of a literal, its point left out
DigitsValue(p) == PlaceSum(SelectSeq(p, IsDigit), Len(SelectSeq(p, IsDigit)))

AbsDiff(a, b) == IF a >= b THEN a - b ELSE b - a

\* shown is a decimal with d digits behind the point that is no further than
\* half a unit of its last place from the magnitude of the literal p
ShowsRounded(shown, p, d) ==
  /\ IsDecimalLiteral(shown)
  /\ FracLen(shown) = d
  /\ 2 * AbsDiff(DigitsValue(shown) * Pow10(FracLen(p)), DigitsValue(p) * Pow10(d))
       <= Pow10(FracLen(p))

\* the literal that carries the magnitude of a display string: the longest
\* one that starts the string stripped of all but digits and points, 0 for
\* 'N/A' and for a string without one
MagnitudeLiteral(s) ==
  IF s # NA /\ Parses(Stripped(s)) THEN LongestLiteral(Stripped(s)) ELSE <<"0">>

\* the columns of the export that hold the four second fields
SecondColumns == {5, 6, 7, 9}

\* the column that holds total blocking time
MillisecondColumns == {8}

\* C19: the export of a record built from display strings shows, in each of
\* the five numeric columns, the magnitude of the display string rounded to
\* the column's precision: a decimal with three digits behind the point for
\* the four second fields, and with none for total blocking time, no further
\* than half a unit of its last place from the magnitude.
C19_RoundTrip ==
  (fnOut # None /\ "fields" \in DOMAIN fnOut) =>
    /\ Len(fnOut.fields) = 9
    /\ \A k \in SecondColumns :
         ShowsRounded(fnOut.fields[k], MagnitudeLiteral(fnIn.s), 3)
    /\ \A k \in MillisecondColumns :
         ShowsRounded(fnOut.fields[k], MagnitudeLiteral(fnIn.s), 0)
    /\ (fnIn.s = Sec23 =>
          /\ fnOut.fields[5] = <<"2", ".", "3", "0", "0">>
          /\ fnOut.fields[8] = <<"2">>)

\* the display string ".0026" went through: the second fields show 0.003
\* and total blocking time shows 0
C19_Witness ==
  /\ fnIn = JsStr(<<".", "0", "0", "2", "6">>)
  /\ fnOut # None
  /\ "fields" \in DOMAIN fnOut
  /\ fnOut.fields[5] = <<"0", ".", "0", "0", "3">>
  /\ fnOut.fields[9] = <<"0", ".", "0", "0", "3">>
  /\ fnOut.fields[8] = <<"0">>

\* ------------------------------------------------------------------------
\* ResultsHistory: the component and its fetches
\* ------------------------------------------------------------------------

MaxFetches == 3

\* err.message of the Error thrown for a response that is not ok
FetchFailedMessage == <<"F", "a", "i", "l", "e", "d", " ", "t", "o", " ", "f", "e", "t", "c", "h", " ", "r", "e", "s", "u", "l", "t", "s">>

RowDesktopA == HistoryRow(1, JsStr(UrlA), JsStr(desktop), Day(1), JsNum(Dec(FALSE, 2, 0)))

RowMobileWww == HistoryRow(2, JsStr(UrlWww), JsStr(mobile), Day(2), JsNum(Dec(FALSE, 1, 0)))

\* the arrays the results route may answer with as the table grows
Snapshots == {<<>>, <<RowDesktopA>>, <<RowMobileWww, RowDesktopA>>}

Websites == {JsNull, JsStr(DomainA), JsStr(DomainWww)}

StrategyFilters == {all, desktop, mobile}

\* options of the sort select
SortChoices ==
  {<<"created_at", "desc">>, <<"created_at", "asc">>, <<"speed_index", "asc">>}

\* the main view with its controls is rendered: no error panel and no
\* placeholder for an empty list
ControlsShown == error = JsNull /\ Len(results) > 0

\* a call of fetchResults up to its await, in a render whose props and state
\* are the given ones: the call keeps them for the rest of its run
StartFetch(website, filter, field, direction) ==
  /\ started < MaxFetches
  /\ started' = started + 1
  /\ inflight' = inflight \cup
       {[id |-> started + 1, selectedWebsite |-> website, strategyFilter |-> filter,
         sortField |-> field, sortDirection |-> direction]}
  /\ loading' = TRUE
  /\ error' = JsNull
  /\ UNCHANGED <<results, arrivals>>

\* the component mounts and its effect runs for the first time
Mount ==
  /\ started = 0
  /\ StartFetch(selectedWebsite, strategyFilter, sortField, sortDirection)
  /\ UNCHANGED <<selectedWebsite, strategyFilter, sortField, sortDirection,
                 refreshTrigger>>
  /\ UNCHANGED <<reqVars, fnIn, fnOut, formVars>>

\* Layout.handleWebsiteSelect: the prop changes and the effect runs again
SelectWebsite(website) ==
  /\ started > 0
  /\ website # selectedWebsite
  /\ selectedWebsite' = website
  /\ StartFetch(website, strategyFilter, sortField, sortDirection)
  /\ UNCHANGED <<strategyFilter, sortField, sortDirection, refreshTrigger>>
  /\ UNCHANGED <<reqVars, fnIn, fnOut, formVars>>

\* Layout.handleNewResult: refreshTrigger goes up and the effect runs again
NewResult ==
  /\ started > 0
  /\ refreshTrigger' = refreshTrigger + 1
  /\ StartFetch(selectedWebsite, strategyFilter, sortField, sortDirection)
  /\ UNCHANGED <<selectedWebsite, strategyFilter, sortField, sortDirection>>
  /\ UNCHANGED <<reqVars, fnIn, fnOut, formVars>>

\* onChange of the device select
SetStrategyFilter(filter) ==
  /\ started > 0
  /\ ControlsShown
  /\ filter # strategyFilter
  /\ strategyFilter' = filter
  /\ StartFetch(selectedWebsite, filter, sortField, sortDirection)
  /\ UNCHANGED <<selectedWebsite, sortField, sortDirection, refreshTrigger>>
  /\ UNCHANGED <<reqVars, fnIn, fnOut, formVars>>

\* onChange of the sort select
SetSort(choice) ==
  /\ started > 0
  /\ ControlsShown
  /\ choice # <<sortField, sortDirection>>
  /\ sortField' = choice[1]
  /\ sortDirection' = choice[2]
  /\ StartFetch(selectedWebsite, strategyFilter, choice[1], choice[2])
  /\ UNCHANGED <<selectedWebsite, strategyFilter, refreshTrigger>>
  /\ UNCHANGED <<reqVars, fnIn, fnOut, formVars>>

\* onClick of the Refresh button, disabled while loading
Refresh ==
  /\ started > 0
  /\ ControlsShown
  /\ ~loading
  /\ StartFetch(selectedWebsite, strategyFilter, sortField, sortDirection)
  /\ UNCHANGED <<selectedWebsite, strategyFilter, sortField, sortDirection,
                 refreshTrigger>>
  /\ UNCHANGED <<reqVars, fnIn, fnOut, formVars>>

\* fetchResults from its await on, were the response of a call that is not
\* the latest one dropped
FetchResolvedLatestOnly(f, data) ==
  /\ f \in inflight
  /\ \E v \in FetchedView(data, f.selectedWebsite, f.strategyFilter,
                          f.sortField, f.sortDirection) :
       /\ results' = IF f.id = started THEN v ELSE results
       /\ arrivals' = Append(arrivals, [id |-> f.id, ok |-> TRUE, view |-> v,
                                        data |-> data,
                                        pending |-> Cardinality(inflight)])
  /\ loading' = FALSE
  /\ inflight' = inflight \ {f}
  /\ UNCHANGED <<selectedWebsite, strategyFilter, sortField, sortDirection,
                 refreshTrigger, error, started>>
  /\ UNCHANGED <<reqVars, fnIn, fnOut, formVars>>

\* fetchResults from its await on, for a response that is ok and carries
\* data: the filters and the sort use what the call kept at its start
FetchResolved(f, data) ==
  /\ f \in inflight
  /\ \E v \in FetchedView(data, f.selectedWebsite, f.strategyFilter,
                          f.sortField, f.sortDirection) :
       /\ results' = v
       /\ arrivals' = Append(arrivals, [id |-> f.id, ok |-> TRUE, view |-> v,
                                        data |-> data,
                                        pending |-> Cardinality(inflight)])
  /\ loading' = FALSE
  /\ inflight' = inflight \ {f}
  /\ UNCHANGED <<selectedWebsite, strategyFilter, sortField, sortDirection,
                 refreshTrigger, error, started>>
  /\ UNCHANGED <<reqVars, fnIn, fnOut, formVars>>

\* fetchResults from its await on, for a fetch that rejects or a response
\* that is not ok: the catch and the finally
FetchFailed(f) ==
  /\ f \in inflight
  /\ error' = JsStr(FetchFailedMessage)
  /\ loading' = FALSE
  /\ arrivals' = Append(arrivals, [id |-> f.id, ok |-> FALSE, view |-> <<>>,
                                   data |-> <<>>,
                                   pending |-> Cardinality(inflight)])
  /\ inflight' = inflight \ {f}
  /\ UNCHANGED <<selectedWebsite, strategyFilter, sortField, sortDirection,
                 refreshTrigger, results, started>>
  /\ UNCHANGED <<reqVars, fnIn, fnOut, formVars>>

InitHistory ==
  /\ ViewIdle
  /\ EndpointIdle
  /\ fnIn = None
  /\ fnOut = None

NextHistory ==
  \/ Mount
  \/ \E website \in Websites : SelectWebsite(website)
  \/ NewResult
  \/ \E filter \in StrategyFilters : SetStrategyFilter(filter)
  \/ \E choice \in SortChoices : SetSort(choice)
  \/ Refresh
  \/ \E f \in inflight : \E data \in Snapshots : FetchResolved(f, data)
  \/ \E f \in inflight : FetchFailed(f)

SpecHistory == InitHistory /\ [][NextHistory]_vars

\* every call of fetchResults has run to its end
AllResolved == started > 0 /\ inflight = {}

\* some response arrived while another call was awaiting its own
Overlapped == \E k \in DOMAIN arrivals : arrivals[k].pending >= 2

\* the arrivals that carried a response that was ok
Successes == {k \in DOMAIN arrivals : arrivals[k].ok}

\* the collection produced by the last response that arrived with success,
\* the initial empty collection when there is none
LastSuccessView ==
  IF Successes = {} THEN <<>>
  ELSE arrivals[CHOOSE k \in Successes : \A l \in Successes : l <= k].view

\* no call is dropped: each call started is awaiting its response or has
\* had its response applied, once
NoneCancelled ==
  /\ \A id \in 1 .. started :
       Cardinality({f \in inflight : f.id = id})
         + Cardinality({k \in DOMAIN arrivals : arrivals[k].id = id}) = 1
  /\ \A f \in inflight : f.id \in 1 .. started
  /\ \A k \in DOMAIN arrivals : arrivals[k].id \in 1 .. started

\* C20 as stated: when several fetches were in flight at the same time, none
\* is cancelled and the collection held once all have resolved is the one
\* produced by the response that arrived last.
C20_Original ==
  (AllResolved /\ Overlapped) =>
    /\ NoneCancelled
    /\ Last(arrivals).ok
    /\ results = Last(arrivals).view

\* C20, amended: when several fetches were in flight at the same time, none
\* is cancelled, and the collection held once all have resolved is the one
\* produced by the last response that arrived with success (the empty
\* collection when none did), whatever the order the calls were started in;
\* a response that fails leaves the collection as it is and sets the error.
C20_LastWriteWins ==
  /\ NoneCancelled
  /\ (AllResolved /\ Overlapped) =>
       /\ results = LastSuccessView
       /\ Last(arrivals).ok => results = Last(arrivals).view
       /\ ~Last(arrivals).ok => error = JsStr(FetchFailedMessage)

\* the call started second was answered first and the call started first
\* last, with a different collection, which is the one held
C20_Witness ==
  /\ AllResolved
  /\ Len(arrivals) = 2
  /\ arrivals[1].id = 2
  /\ arrivals[1].pending = 2
  /\ arrivals[2].id = 1
  /\ arrivals[1].ok
  /\ arrivals[2].ok
  /\ arrivals[1].view # arrivals[2].view
  /\ results = arrivals[2].view


\* ------------------------------------------------------------------------
\* Properties of the store and of the endpoint's writes
\* ------------------------------------------------------------------------

\* C22: the store is append-only: every step of the system leaves each
\* persisted row where it is and as it is, so the rows only grow in number
C22_AppendOnly ==
  [][/\ Len(store') >= Len(store)
     /\ \A i \in DOMAIN store : store'[i] = store[i]]_vars

\* C22 witness: a second row has been inserted after a first one
C22_Witness ==
  /\ Len(store) = 2
  /\ \E r \in Requests : Done(r) /\ inserted[r].outcome = "row" /\ inserted[r].id = 2

\* the request r carried a url the handler accepts
CarriedUrl(r) == body[r] # None /\ body[r].kind = "object" /\ Truthy(TargetUrl(body[r]))

\* C28: an insert is attempted only for a request that carried a url and
\* whose upstream fetch answered a success status with a body that parses; a
\* request answered 400 or 500 attempted no insert and added no row; a
\* request without a url made no upstream call
C28_InsertFrame ==
  \A r \in Requests :
    /\ (inserts[r] > 0 \/ inserted[r] # NotInserted) =>
         /\ CarriedUrl(r)
         /\ upstream[r] # None
         /\ ~upstream[r].threw
         /\ upstream[r].status \in 200 .. 299
         /\ upstream[r].parses
    /\ (Done(r) /\ Status(r) \in {400, 500}) =>
         /\ inserts[r] = 0
         /\ inserted[r] = NotInserted
         /\ \A i \in DOMAIN store : store[i].id # inserted[r].id
    /\ (body[r] # None /\ ~CarriedUrl(r)) =>
         /\ query[r] = None
         /\ upstream[r] = None

\* C28 witness: one request was answered 400, another 500 after its upstream
\* fetch settled, and the store holds no row
C28_Witness ==
  \E r1, r2 \in Requests :
    /\ Done(r1) /\ Status(r1) = 400 /\ upstream[r1] = None
    /\ Done(r2) /\ Status(r2) = 500 /\ upstream[r2] # None
    /\ store = <<>>


\* ------------------------------------------------------------------------
\* Properties of sortResults beyond its order
\* ------------------------------------------------------------------------

Sorted == fnOut # None /\ "sorted" \in DOMAIN fnOut

Occurrences(rows, row) == Cardinality({i \in DOMAIN rows : rows[i] = row})

\* C30: sortResults returns a permutation of its input: each record occurs
\* in the output as often as in the input, and the input array is left in
\* the order it was given in (row i is still the row fetched i-th)
C30_Permutation ==
  Sorted =>
    /\ Len(fnOut.sorted) = Len(fnIn.data)
    /\ \A row \in RowsOf(fnIn.data) \cup RowsOf(fnOut.sorted) :
         Occurrences(fnOut.sorted, row) = Occurrences(fnIn.data, row)
    /\ \A i \in DOMAIN fnIn.data : fnIn.data[i].id = IdOf(i)

\* C30 witness: three records were sorted and the output is in another order
\* than the input
C30_Witness ==
  /\ Sorted
  /\ Len(fnIn.data) = 3
  /\ fnOut.sorted # fnIn.data


\* ------------------------------------------------------------------------
\* Sidenav: fetchWebsiteGroups called twice on one build
\* ------------------------------------------------------------------------

MaxRegroupRows == 3

\* what a build's sort does with an array whose comparator is inconsistent:
\* the order is implementation-defined, and a build always orders the same
\* comparison results the same way
Engines == {"kept", "reversed", "rotated"}

\* the order the sort of a build leaves n elements in under the comparison
\* results c
EngineOrder(engine, n, c) ==
  IF ConsistentComparator(n, c) THEN StableOrder(n, c)
  ELSE IF engine = "kept" THEN [i \in 1 .. n |-> i]
  ELSE IF engine = "reversed" THEN [i \in 1 .. n |-> n + 1 - i]
  ELSE [i \in 1 .. n |-> (i % n) + 1]

\* a groupMap that outlives the call: the rows grouped before are still in it
KeptMap(previous) == previous

\* const groupMap = new Map(): every call starts from an empty map, whatever
\* rows an earlier call grouped
NewMap(previous) == <<>>

\* an array sorted by a build under the comparison results c
SortedOn(engine, a, c) == Reorder(a, EngineOrder(engine, Len(a), c))

\* the WebsiteGroup object a build makes of the rows pushed under a key
WebsiteGroupOn(engine, domain, pushed) ==
  WebsiteGroup(domain, SortedOn(engine, pushed, GroupSortComparator(pushed)))

\* Array.from(groupMap.entries()).map(...) on a build, for a groupMap that
\* holds the given rows
MappedGroupsOn(engine, rows) ==
  [k \in DOMAIN GroupKeys(rows) |->
     WebsiteGroupOn(engine, GroupKeys(rows)[k], GroupRows(rows, GroupKeys(rows)[k]))]

\* the final sort of the groups on a build
SortedGroupsOn(engine, groups) ==
  SortedOn(engine, groups, GroupsComparator(groups))

\* the array fetchWebsiteGroups hands to setWebsiteGroups on a build, for the
\* rows data pushed into a groupMap that holds the rows inMap
fetchWebsiteGroupsOn(engine, inMap, data) ==
  SortedGroupsOn(engine, MappedGroupsOn(engine, inMap \o data))

RegroupUrls == {JsStr(UrlA), JsStr(UrlWww), JsStr(UrlB)}

\* an array of rows the results route may answer the side panel with: row i
\* with the URL f[i][1], created on day i or, for f[i][2] false, without a
\* creation time
RegroupData(f) ==
  [i \in DOMAIN f |->
     HistoryRow(i, f[i][1], JsStr(mobile),
                IF f[i][2] THEN Day(i) ELSE JsNull, IdOf(i))]

InitRegroup ==
  /\ ViewIdle
  /\ EndpointIdle
  /\ \E n \in 0 .. MaxRegroupRows :
       \E f \in [1 .. n -> RegroupUrls \X BOOLEAN] :
         \E engine \in Engines :
           fnIn = [data |-> RegroupData(f), engine |-> engine]
  /\ fnOut = None

\* the side panel mounts and groups the fetched rows
GroupFirst ==
  /\ fnOut = None
  /\ fnOut' = [first |-> fetchWebsiteGroupsOn(fnIn.engine, <<>>, fnIn.data)]
  /\ UNCHANGED <<reqVars, fnIn, viewVars>>

\* the side panel groups the same rows again
GroupAgain ==
  /\ fnOut # None
  /\ DOMAIN fnOut = {"first"}
  /\ fnOut' = [first |-> fnOut.first,
               second |-> fetchWebsiteGroupsOn(fnIn.engine, NewMap(fnIn.data),
                                               fnIn.data)]
  /\ UNCHANGED <<reqVars, fnIn, viewVars>>

NextRegroup == GroupFirst \/ GroupAgain

SpecRegroup == InitRegroup /\ [][NextRegroup]_vars

GroupedTwice == fnOut # None /\ "second" \in DOMAIN fnOut

C24_Witness ==
  /\ GroupedTwice
  /\ Len(fnIn.data) = 3
  /\ Len(fnOut.second) = 2
  /\ \E k \in DOMAIN fnOut.second :
       /\ fnOut.second[k].count = 2
       /\ fnOut.second[k].results[1].created_at = fnOut.second[k].results[2].created_at

MaxChartRows == 2

\* (a, b) => new Date(a.created_at || 0).getTime() - new Date(b.created_at || 0).getTime()
ChartSortComparator(rows) ==
  [i \in DOMAIN rows, j \in DOMAIN rows |->
     SignOfDiff(CreatedTime(rows[i]), CreatedTime(rows[j]))]

\* what the chart's fetchResults hands to setResults for the fetched rows
\* data: the two filters of the history view, then the sort by date
chartFetchResults(data, website, filter) ==
  LET filteredResults == FilterByStrategy(FilterByWebsite(data, website), filter)
  IN {Reorder(filteredResults, order) :
        order \in SortOrders(Len(filteredResults),
                             ChartSortComparator(filteredResults))}

\* a chart point with the record's values as they are
ChartPointRaw(row) ==
  [timestamp |-> IF Truthy(row.created_at) THEN JsNum(DateOf(row.created_at))
                 ELSE JsNum(Zero),
   first_content_paint |-> row.first_content_paint,
   speed_index |-> row.speed_index,
   largest_content_paint |-> row.largest_content_paint,
   total_blocking_time |-> row.total_blocking_time,
   time_to_interactive |-> row.time_to_interactive,
   url |-> row.url,
   device_strategy |-> row.device_strategy]

\* one element of chartData; its date label, the creation day written in
\* the browser's locale, is left out
ChartPoint(row) ==
  [timestamp |-> IF Truthy(row.created_at) THEN JsNum(DateOf(row.created_at))
                 ELSE JsNum(Zero),
   first_content_paint |-> JsOr(row.first_content_paint, JsNum(Zero)),
   speed_index |-> JsOr(row.speed_index, JsNum(Zero)),
   largest_content_paint |-> JsOr(row.largest_content_paint, JsNum(Zero)),
   total_blocking_time |-> JsOr(row.total_blocking_time, JsNum(Zero)),
   time_to_interactive |-> JsOr(row.time_to_interactive, JsNum(Zero)),
   url |-> row.url,
   device_strategy |-> row.device_strategy]

\* chartData: results.map(...)
chartData(rows) == [i \in DOMAIN rows |-> ChartPoint(rows[i])]

ChartUrls == {JsStr(UrlA), JsStr(UrlB)}

ChartDevices == {JsStr(desktop), JsStr(mobile)}

\* an array of rows the results route may answer the chart with: creation
\* times the store hands out or none, metrics present or missing
ChartRows(f) ==
  [i \in DOMAIN f |-> HistoryRow(i, f[i][1], f[i][2], f[i][3], f[i][4])]

InitChart ==
  /\ ViewIdle
  /\ EndpointIdle
  /\ \E n \in 0 .. MaxChartRows :
       \E f \in [1 .. n -> ChartUrls \X ChartDevices \X GroupCreated \X SortMetrics] :
         \E website \in {JsNull, JsStr(DomainA)}, filter \in {all, desktop, mobile} :
           fnIn = [data |-> ChartRows(f), selectedWebsite |-> website,
                   strategyFilter |-> filter]
  /\ fnOut = None

\* the try block of the chart's fetchResults on a response that is ok, and
\* the chartData memo of the render that follows
ChartStep ==
  /\ fnOut = None
  /\ \E v \in chartFetchResults(fnIn.data, fnIn.selectedWebsite, fnIn.strategyFilter) :
       fnOut' = [results |-> v, chartData |-> chartData(v)]
  /\ UNCHANGED <<reqVars, fnIn, viewVars>>

NextChart == ChartStep

SpecChart == InitChart /\ [][NextChart]_vars

Charted == fnOut # None /\ "chartData" \in DOMAIN fnOut

\* the fetched records the chart's two filters let through
ChartFiltered ==
  {row \in RowsOf(fnIn.data) :
     PassesDomain(row, fnIn.selectedWebsite) /\ PassesDevice(row, fnIn.strategyFilter)}

\* the value plotted for a record's metric: the value, a missing one as 0
Plotted(v) == IF v.t = "number" /\ ~v.n.nan THEN v ELSE JsNum(Zero)

\* C25: the chart series holds exactly one point per filtered record, in
\* ascending order of creation time (a record without one is placed at the
\* epoch), and each point carries the record's five numeric values, a
\* missing value as 0
C25_TimeSeries ==
  Charted =>
    /\ Len(fnOut.chartData) = Cardinality(ChartFiltered)
    /\ Len(fnOut.results) = Len(fnOut.chartData)
    /\ RowsOf(fnOut.results) = ChartFiltered
    /\ \A i \in DOMAIN fnOut.chartData :
         /\ fnOut.chartData[i].timestamp.n = StatedKey(fnOut.results[i], "created_at")
         /\ \A field \in MetricFields :
              fnOut.chartData[i][field] = Plotted(fnOut.results[i][field])
    /\ \A i, j \in DOMAIN fnOut.chartData :
         i < j => ~NumLt(fnOut.chartData[j].timestamp.n,
                         fnOut.chartData[i].timestamp.n)

\* C25 witness: two records passed the filters, the later one fetched first
\* and one of them without metric values, and the chart holds two points
C25_Witness ==
  /\ Charted
  /\ Len(fnOut.chartData) = 2
  /\ fnOut.results # fnIn.data
  /\ fnIn.strategyFilter = mobile
  /\ NumLt(fnOut.chartData[1].timestamp.n, fnOut.chartData[2].timestamp.n)
  /\ \E i \in 1 .. 2 : fnOut.results[i].speed_index = JsNull


\* ------------------------------------------------------------------------
\* Properties of the history view between fetches
\* ------------------------------------------------------------------------

\* the record set of the last response that arrived with success, the empty
\* set when there is none
LastFetched ==
  IF Successes = {} THEN <<>>
  ELSE arrivals[CHOOSE k \in Successes : \A l \in Successes : l <= k].data

\* C26 as stated: whenever no fetch is in flight, the list held for display
\* is the last fetched record set filtered and sorted by the domain, device
\* filter, sort field and sort direction selected at that moment, after any
\* interleaving of selection changes, refreshes and response arrivals.
C26_Original ==
  AllResolved =>
    results \in FetchedView(LastFetched, selectedWebsite, strategyFilter,
                            sortField, sortDirection)

\* C27 as stated: loading is true in every state where at least one fetch of
\* the view is in flight, and false in every state where none is.
C27_Original ==
  /\ inflight # {} => loading
  /\ inflight = {} => ~loading


\* ------------------------------------------------------------------------
\* PageSpeedInsights: the analysis form, and the refresh of the history
\* ------------------------------------------------------------------------

MaxSubmits == 2

\* 'Failed to fetch data'
FailedToFetchData == <<"F", "a", "i", "l", "e", "d", " ", "t", "o", " ", "f", "e", "t", "c", "h", " ", "d", "a", "t", "a">>

\* the error messages of the analysis endpoint
UrlIsRequired == <<"U", "R", "L", " ", "i", "s", " ", "r", "e", "q", "u", "i", "r", "e", "d">>

FailedToFetchPageSpeedData == <<"F", "a", "i", "l", "e", "d", " ", "t", "o", " ", "f", "e", "t", "c", "h", " ", "P", "a", "g", "e", "S", "p", "e", "e", "d", " ", "d", "a", "t", "a">>

\* the message of an error the platform throws: a fetch that rejects, a body
\* that is no JSON, a property read on null
PlatformMessage == <<"T", "y", "p", "e", "E", "r", "r", "o", "r">>

\* `... Results saved to database (ID: ${databaseId})`; U+2705 stands for
\* the check mark the message starts with
SavedMessage(databaseId) ==
  <<"U+2705">> \o <<" ", "R", "e", "s", "u", "l", "t", "s", " ", "s", "a", "v", "e", "d", " ", "t", "o", " ", "d", "a", "t", "a", "b", "a", "s", "e", " ", "(", "I", "D", ":", " ">>
    \o TemplateString(databaseId) \o <<")">>

\* what the fetch of /api/pagespeed may settle with: a rejection, or a
\* response with its ok flag and what response.json() yields
FormReply(rejected, ok, parses, json) ==
  [rejected |-> rejected, ok |-> ok, parses |-> parses, json |-> json]

FormReplies ==
  {FormReply(TRUE, FALSE, FALSE, JsUndefined),
   FormReply(FALSE, FALSE, FALSE, JsUndefined),
   FormReply(FALSE, FALSE, TRUE, JsObj([error |-> JsStr(UrlIsRequired)])),
   FormReply(FALSE, FALSE, TRUE, JsObj([error |-> JsStr(FailedToFetchPageSpeedData)])),
   FormReply(FALSE, FALSE, TRUE, JsObj(<<>>)),
   FormReply(FALSE, TRUE, FALSE, JsUndefined),
   FormReply(FALSE, TRUE, TRUE, JsNull),
   FormReply(FALSE, TRUE, TRUE, JsObj([id |-> JsStr(UrlA)]))}
  \cup
  {FormReply(FALSE, TRUE, TRUE,
             JsObj([id |-> JsStr(UrlA), databaseId |-> IdOf(n)])) :
     n \in 1 .. MaxSubmits}

\* handleSubmit up to its await with the result data left as it was
HandleSubmitKeepingData(f) ==
  [f EXCEPT !.loading = TRUE, !.error = JsNull,
            !.successMessage = JsNull, !.pending = TRUE,
            !.submits = @ + 1]

\* handleSubmit up to the await of fetch: the four setters, then the request
\* is sent (the elapsed-time display is left out)
HandleSubmit(f) ==
  [f EXCEPT !.loading = TRUE, !.error = JsNull, !.data = JsNull,
            !.successMessage = JsNull, !.pending = TRUE,
            !.submits = @ + 1]

\* the form once the catch and finally blocks ran for an error of message m
FormFailed(f, m) ==
  [f EXCEPT !.error = JsStr(m), !.loading = FALSE, !.pending = FALSE]

\* handleSubmit from the await of fetch on, without the call of onNewResult
HandleReplySilent(f, reply, fetches) ==
  IF reply.rejected \/ ~reply.parses
  THEN [form |-> FormFailed(f, PlatformMessage), notify |-> FALSE]
  ELSE IF ~reply.ok
  THEN [form |->
          FormFailed(f,
            IF reply.json.t \in {"null", "undefined"} THEN PlatformMessage
            ELSE TemplateString(JsOr(Prop(reply.json, "error"),
                                     JsStr(FailedToFetchData)))),
        notify |-> FALSE]
  ELSE IF reply.json.t \in {"null", "undefined"}
  THEN [form |-> FormFailed([f EXCEPT !.data = reply.json], PlatformMessage),
        notify |-> FALSE]
  ELSE LET databaseId == Prop(reply.json, "databaseId")
           saved == Truthy(databaseId)
       IN [form |->
             [f EXCEPT !.data = reply.json,
                       !.successMessage =
                          IF saved THEN JsStr(SavedMessage(databaseId)) ELSE @,
                       !.loading = FALSE, !.pending = FALSE,
                       !.lastOk = [kind |-> IF saved THEN "saved" ELSE "unsaved",
                                   started |-> fetches]],
           notify |-> FALSE]

\* handleSubmit from the await of fetch on: the form it leaves, and whether
\* it called onNewResult; fetches is the number of fetchResults calls made
\* so far, kept in lastOk
HandleReply(f, reply, fetches) ==
  IF reply.rejected \/ ~reply.parses
  THEN [form |-> FormFailed(f, PlatformMessage), notify |-> FALSE]
  ELSE IF ~reply.ok
  THEN [form |->
          FormFailed(f,
            IF reply.json.t \in {"null", "undefined"} THEN PlatformMessage
            ELSE TemplateString(JsOr(Prop(reply.json, "error"),
                                     JsStr(FailedToFetchData)))),
        notify |-> FALSE]
  ELSE IF reply.json.t \in {"null", "undefined"}
  THEN [form |-> FormFailed([f EXCEPT !.data = reply.json], PlatformMessage),
        notify |-> FALSE]
  ELSE LET databaseId == Prop(reply.json, "databaseId")
           saved == Truthy(databaseId)
       IN [form |->
             [f EXCEPT !.data = reply.json,
                       !.successMessage =
                          IF saved THEN JsStr(SavedMessage(databaseId)) ELSE @,
                       !.loading = FALSE, !.pending = FALSE,
                       !.lastOk = [kind |-> IF saved THEN "saved" ELSE "unsaved",
                                   started |-> fetches]],
           notify |-> saved]

\* the form is submitted; the submit button is disabled while loading
Submit ==
  /\ ~form.loading
  /\ form.submits < MaxSubmits
  /\ form' = HandleSubmit(form)
  /\ UNCHANGED <<reqVars, fnIn, fnOut, effectDeps>>
  /\ UNCHANGED <<selectedWebsite, strategyFilter, sortField, sortDirection,
                 refreshTrigger, results, loading, error, inflight, started,
                 arrivals>>

\* the fetch of the form settles and handleSubmit runs to its end;
\* onNewResult is Layout.handleNewResult, which raises refreshTrigger
SubmitSettled ==
  /\ form.pending
  /\ \E reply \in FormReplies :
       LET out == HandleReply(form, reply, started)
       IN /\ form' = out.form
          /\ refreshTrigger' = IF out.notify THEN refreshTrigger + 1
                               ELSE refreshTrigger
  /\ UNCHANGED <<reqVars, fnIn, fnOut, effectDeps>>
  /\ UNCHANGED <<selectedWebsite, strategyFilter, sortField, sortDirection,
                 results, loading, error, inflight, started, arrivals>>

\* the effect of ResultsHistory: it runs after the first render and after
\* every render in which refreshTrigger differs from the last run's
HistoryEffect ==
  /\ started = 0 \/ effectDeps # refreshTrigger
  /\ effectDeps' = refreshTrigger
  /\ StartFetch(selectedWebsite, strategyFilter, sortField, sortDirection)
  /\ UNCHANGED <<selectedWebsite, strategyFilter, sortField, sortDirection,
                 refreshTrigger>>
  /\ UNCHANGED <<reqVars, fnIn, fnOut, form>>

InitForm ==
  /\ ViewIdle
  /\ EndpointIdle
  /\ fnIn = None
  /\ fnOut = None

NextForm ==
  \/ Submit
  \/ SubmitSettled
  \/ HistoryEffect
  \/ \E f \in inflight : \E data \in Snapshots : FetchResolved(f, data)
  \/ \E f \in inflight : FetchFailed(f)

SpecForm == InitForm /\ [][NextForm]_vars

\* React runs a due effect after the render: the effect is not put off for
\* ever
SpecFormFair == SpecForm /\ WF_vars(HistoryEffect)

\* the form holds result data, an error message, a success message
DataSet == form.data # JsNull

ErrorSet == form.error # JsNull

SuccessSet == form.successMessage # JsNull

\* C29: in the analysis form at most one of the result data and the error
\* message is set; the success message is set only when result data is set
\* and carries a databaseId; and while the request of a submission is out
\* all three are cleared
C29_FormState ==
  /\ ~(DataSet /\ ErrorSet)
  /\ SuccessSet =>
       /\ DataSet
       /\ Truthy(Prop(form.data, "databaseId"))
       /\ form.successMessage =
            JsStr(SavedMessage(Prop(form.data, "databaseId")))
  /\ form.pending => ~DataSet /\ ~ErrorSet /\ ~SuccessSet

\* C29 witness: a first submission ended with result data and the success
\* message, and the request of a second submission is out
C29_Witness ==
  /\ form.submits = 2
  /\ form.pending
  /\ form.lastOk.kind = "saved"

\* a response that was ok has been received and no fetchResults call was
\* made since
Unfollowed == form.lastOk.kind # "none" /\ started = form.lastOk.started

Followed == started > form.lastOk.started

\* C21 as stated: after the client receives a successful analysis response,
\* the history view eventually fetches the record set anew: every
\* successful response is followed by a new fetch of the history list.
C21_Original == Unfollowed ~> Followed

\* C21, amended: after the client receives a successful analysis response
\* that carries a databaseId, the history view eventually fetches the record
\* set anew; a successful response without a databaseId starts no fetch.
C21_RefetchAfterSaved ==
  /\ (Unfollowed /\ form.lastOk.kind = "saved") ~> Followed
  /\ [][(form.lastOk # form'.lastOk /\ form'.lastOk.kind = "unsaved")
          => refreshTrigger' = refreshTrigger]_vars

\* C21 witness: the history view fetched after its first fetch, following a
\* response with a databaseId
C21_Witness ==
  /\ form.lastOk.kind = "saved"
  /\ form.lastOk.started >= 1
  /\ Followed
  /\ effectDeps = 1

====
